---- MODULE Spec2Model ----
(***************************************************************************)
(* Control core of GoodweAplhaAmberControl (src/control.py): the control   *)
(* loop of main(), the GoodWe limiter and runtime reader, and the          *)
(* snapshots the Amber and AlphaESS pollers publish.                       *)
(*                                                                         *)
(* Time is counted in clock units of 1/TicksPerSec seconds, so that the    *)
(* int() truncation of a snapshot age is not the identity.  Optional       *)
(* values (Python None) are sequences: <<>> is None, <<v>> is the value v. *)
(* Prices are whole cents, state of charge is in tenths of a percent,      *)
(* LIMIT_SMOOTHING and the feedback gain are rationals NUM/DEN.            *)
(***************************************************************************)
EXTENDS Integers, Sequences, FiniteSets, TLC

\* ---------------------------------------------------------------- bounds

\* clock units per second
TicksPerSec == 2
\* clock units the model runs for after start-up
Horizon == 4
\* clock units the model of the Modbus transport runs for
ModbusHorizon == 10
\* extra clock units one loop iteration may take beyond SLEEP_SECONDS
MaxJitter == 1
\* seconds, at most, from a price poll to the time the next one is due
MaxDueSec == 2
\* polls of the battery API in a run of its poller
MaxBatteryPolls == 3
\* seconds the model of the price poller runs for
PriceHorizonSec == 33
\* clock units, at most, a fetch of the price poller takes
MaxFetchTicks == 1

\* ------------------------------------------- configuration (environment)

\* control.py reads these from the environment; the values below are one
\* configuration, scaled to seconds the model can enumerate.
SLEEP_SECONDS == 1
MIN_SECONDS_BETWEEN_WRITES == 2
MIN_PCT_STEP == 1
LIMIT_SMOOTHING_NUM == 1
LIMIT_SMOOTHING_DEN == 5
AMBER_MAX_STALE_SEC == 1
ALPHAESS_MAX_STALE_SEC == 1
EXPORT_COST_THRESHOLD_C == 0
GOODWE_RATED_W == 5000
GOODWE_EXPORT_SWITCH_REG == 291
GOODWE_EXPORT_PCT_REG == 292
GOODWE_EXPORT_PCT10_REG == 293
GOODWE_ACTIVE_PCT_REG == 256
MODBUS_RETRIES == 2
MODBUS_RECONNECT_ON_ERROR == TRUE
MODBUS_RECONNECT_MIN_BACKOFF_SEC == 1
MODBUS_RECONNECT_MAX_BACKOFF_SEC == 2
POLLER_JOIN_TIMEOUT_SEC == 5
POLLER_SLEEP_CHUNK_SEC == 1
ALPHAESS_MIN_POLL_INTERVAL_SEC == 2
AMBER_RESOLUTION_MIN == 1
AMBER_POLL_SLACK_SEC == 2
AMBER_RETRY_BACKOFF_SEC == 30
ALPHAESS_PBAT_POSITIVE_IS_CHARGE == TRUE
ALPHAESS_PGRID_POSITIVE_IS_IMPORT == TRUE
ALPHAESS_PBAT_IDLE_THRESHOLD_W == 50
ALPHAESS_GRID_FEEDBACK_GAIN_NUM == 1
ALPHAESS_GRID_FEEDBACK_GAIN_DEN == 1
ALPHAESS_GRID_IMPORT_BIAS_W == 50
ALPHAESS_FULL_SOC_PCT_X10 == 995
ALPHAESS_EXPORT_ALLOW_W_BELOW_FULL_SOC == 50
ALPHAESS_AUTO_CHARGE_BELOW_SOC_PCT_X10 == 900
ALPHAESS_AUTO_CHARGE_W == 1500
ALPHAESS_AUTO_CHARGE_MAX_W == 3000

\* ---------------------------------------------------------------- helpers

None == <<>>
Some(v) == <<v>>
IsNone(o) == o = <<>>
Get(o) == o[1]

Max(a, b) == IF a >= b THEN a ELSE b
Min(a, b) == IF a <= b THEN a ELSE b
Abs(a) == IF a >= 0 THEN a ELSE -a

\* Python round() of the rational n/d (d > 0): nearest integer, ties to even.
RoundHalfEven(n, d) ==
    LET q == n \div d
        r == n % d
    IN  IF 2 * r < d THEN q
        ELSE IF 2 * r > d THEN q + 1
        ELSE IF q % 2 = 0 THEN q ELSE q + 1

\* int(x) of the rational n/d (d > 0): truncation toward zero.
IntTrunc(n, d) == IF n >= 0 THEN n \div d ELSE -((-n) \div d)

pct_from_watts(target_w, rated_w) ==
    IF rated_w <= 0 THEN 0
    ELSE LET pct == RoundHalfEven(target_w * 100, rated_w)
         IN  IF pct < 0 THEN 0 ELSE IF pct > 100 THEN 100 ELSE pct

\* clamp_int without the upper bound
clamp_int_no_upper(x, lo, hi) == IF x < lo THEN lo ELSE x

clamp_int(x, lo, hi) == IF x < lo THEN lo ELSE IF x > hi THEN hi ELSE x

\* ------------------------------------------------------------------ state

VARIABLES
    cfg,                \* GOODWE_ALWAYS_ENABLED, GOODWE_EXPORT_LIMIT_MODE,
                        \* ALPHAESS_OPENAPI_ENABLED, RUNTIME_PROFILE
    now,                \* time.time(), in clock units
    pc,                 \* main loop position: "tick" or "sleep"
    last_limit_state,   \* None or <<enabled, pct>>
    last_write_ts,      \* clock units
    amber_snap,         \* AmberPoller._snapshot: None or Some(record)
    alpha_snap,         \* AlphaEssOpenApiPoller._last_snapshot
    alpha_last_error,   \* AlphaEssOpenApiPoller._last_error (TRUE: set)
    resolved_profile,   \* GoodWeRuntimeReader._resolved_profile
    last_probe_error,   \* GoodWeRuntimeReader._last_probe_error (TRUE: set)
    regs,               \* the inverter's holding registers
    out,                \* what the last tick computed and did
    modbus,             \* GoodWeModbus: client, reconnect state, call in progress
    threads,            \* the pollers' threads and the loop at statement level:
                        \* locals, locks, published references, the heap
    proc                \* main() from start to exit: position, pollers'
                        \* threads and stop flags, bus connection, exit status

vars == <<cfg, now, pc, last_limit_state, last_write_ts, amber_snap,
          alpha_snap, alpha_last_error, resolved_profile, last_probe_error,
          regs, out, modbus, threads, proc>>

\* ------------------------------------------------------ GoodWeModbus

\* GoodWeModbus after main() connected it.  call, op, left: the position in
\* _read_holding / _write_register ("idle": no call in progress; "loop": in
\* the retry loop with left attempts to go); reply, result, error, event,
\* backoff: what the last step received and did.
ModbusInit ==
    [client |-> TRUE, reconnect_failures |-> 0, next_reconnect_ts |-> 0,
     call |-> "idle", op |-> "none", left |-> 0, reply |-> "none",
     result |-> "none", error |-> "none", event |-> "none", backoff |-> 0]

\* what one attempt of a call can meet: the reply with the registers (or
\* the write acknowledged), a Modbus exception reply with code 1..4, one
\* with another code, no reply object, or a transport failure
Replies == {"ok", "exception_1_4", "exception_other", "no_response",
            "timeout", "connection_reset"}

\* GoodWeModbus._is_connection_error, on the exceptions the calls raise.
\* "attribute_error": the call on a client that is None.
is_connection_error(exc) == exc \in {"not_connected", "timeout", "connection_reset"}

\* reconnect_backoff without the cap
reconnect_backoff_uncapped(failures) ==
    Max(MODBUS_RECONNECT_MIN_BACKOFF_SEC, MODBUS_RECONNECT_MIN_BACKOFF_SEC * 2 ^ failures)

\* _maybe_reconnect: the backoff in seconds after `failures` failures
reconnect_backoff(failures) ==
    Min(MODBUS_RECONNECT_MAX_BACKOFF_SEC,
        Max(MODBUS_RECONNECT_MIN_BACKOFF_SEC,
            MODBUS_RECONNECT_MIN_BACKOFF_SEC * 2 ^ failures))

\* GoodWeModbus.connect; ok: whether the TCP connect succeeds
connect(m, ok) ==
    IF ok
    THEN [m EXCEPT !.client = TRUE, !.reconnect_failures = 0, !.next_reconnect_ts = 0]
    ELSE [m EXCEPT !.client = FALSE]

\* GoodWeModbus._maybe_reconnect at time t after exception exc
maybe_reconnect(m, t, exc, conn_ok) ==
    IF ~MODBUS_RECONNECT_ON_ERROR \/ ~is_connection_error(exc)
    THEN [m EXCEPT !.event = "none"]
    ELSE IF t < m.next_reconnect_ts
    THEN [m EXCEPT !.event = "backoff_wait"]
    ELSE LET failures == m.reconnect_failures
             backoff == reconnect_backoff(failures)
         IN  IF conn_ok
             THEN [connect(m, TRUE) EXCEPT !.event = "reconnected", !.backoff = backoff]
             ELSE [connect(m, FALSE) EXCEPT !.reconnect_failures = failures + 1,
                                            !.next_reconnect_ts = t + backoff * TicksPerSec,
                                            !.event = "reconnect_failed",
                                            !.backoff = backoff]

\* attempt_action retrying after a Modbus exception reply of any code
attempt_action_retry_all(reply) ==
    IF reply = "ok" THEN "return" ELSE "except"

\* the retry loop of _read_holding / _write_register: what one attempt's
\* reply leads to
attempt_action(reply) ==
    IF reply = "ok" THEN "return"
    ELSE IF reply = "exception_1_4" THEN "break"
    ELSE "except"

\* _read_holding / _write_register up to the retry loop
call_start(m, t, op, conn_ok) ==
    LET m0 == [m EXCEPT !.op = op, !.reply = "none", !.result = "none",
                        !.error = "none", !.event = "none"]
        m1 == IF m0.client THEN m0 ELSE maybe_reconnect(m0, t, "not_connected", conn_ok)
    IN  IF ~m1.client
        THEN [m1 EXCEPT !.call = "idle", !.result = "failed", !.error = "not_connected"]
        ELSE [m1 EXCEPT !.call = "loop", !.left = Max(1, MODBUS_RETRIES)]

\* call_attempt returning normally when the last attempt failed
call_attempt_swallows_last(m, t, reply, conn_ok) ==
    LET got == IF m.client THEN reply ELSE "attribute_error"
        act == attempt_action(got)
        m0 == [m EXCEPT !.reply = got]
    IN  IF act = "return"
        THEN [m0 EXCEPT !.call = "idle", !.left = 0, !.result = "ok", !.event = "none"]
        ELSE IF act = "break"
        THEN [m0 EXCEPT !.call = "idle", !.left = 0, !.result = "failed",
                        !.error = got, !.event = "none"]
        ELSE LET m1 == [maybe_reconnect(m0, t, got, conn_ok) EXCEPT !.error = got,
                                                                   !.left = m.left - 1]
             IN  IF m1.left = 0
                 THEN [m1 EXCEPT !.call = "idle", !.result = "ok"]
                 ELSE m1

\* one pass of the retry loop, and the raise after the last one
call_attempt(m, t, reply, conn_ok) ==
    LET got == IF m.client THEN reply ELSE "attribute_error"
        act == attempt_action(got)
        m0 == [m EXCEPT !.reply = got]
    IN  IF act = "return"
        THEN [m0 EXCEPT !.call = "idle", !.left = 0, !.result = "ok", !.event = "none"]
        ELSE IF act = "break"
        THEN [m0 EXCEPT !.call = "idle", !.left = 0, !.result = "failed",
                        !.error = got, !.event = "none"]
        ELSE LET m1 == [maybe_reconnect(m0, t, got, conn_ok) EXCEPT !.error = got,
                                                                   !.left = m.left - 1]
             IN  IF m1.left = 0
                 THEN [m1 EXCEPT !.call = "idle", !.result = "failed"]
                 ELSE m1

\* ------------------------------------------------ GoodWePowerLimiter

\* set_limit_pct writing the tenths mirror before the percentage
set_limit_pct_mirror_first(enabled, pct, mode, always_enabled) ==
    LET p == clamp_int(pct, 0, 100)
        e == IF always_enabled THEN TRUE ELSE enabled
        sw == <<GOODWE_EXPORT_SWITCH_REG, IF e THEN 1 ELSE 0>>
    IN  IF mode = "active_pct"
        THEN <<sw, <<GOODWE_ACTIVE_PCT_REG, p>>>>
        ELSE <<sw, <<GOODWE_EXPORT_PCT10_REG, p * 10>>,
               <<GOODWE_EXPORT_PCT_REG, p>>>>

\* The register writes set_limit_pct issues, in order, as <<reg, value>>.
set_limit_pct(enabled, pct, mode, always_enabled) ==
    LET p == clamp_int(pct, 0, 100)
        e == IF always_enabled THEN TRUE ELSE enabled
        sw == <<GOODWE_EXPORT_SWITCH_REG, IF e THEN 1 ELSE 0>>
    IN  IF mode = "active_pct"
        THEN <<sw, <<GOODWE_ACTIVE_PCT_REG, p>>>>
        ELSE <<sw, <<GOODWE_EXPORT_PCT_REG, p>>,
               <<GOODWE_EXPORT_PCT10_REG, p * 10>>>>

\* The device after the first n writes of ws were accepted.
RECURSIVE write_u16s(_, _, _)
write_u16s(r, ws, n) ==
    IF n = 0 THEN r
    ELSE LET r1 == write_u16s(r, ws, n - 1)
         IN  [r1 EXCEPT ![ws[n][1]] = ws[n][2]]

\* read_current: the register reads either all succeed or one of them
\* raises (ok = FALSE); nothing in read_current catches it.
read_current(r, mode, ok) ==
    IF ~ok THEN [raised |-> TRUE, value |-> None]
    ELSE IF mode = "active_pct"
    THEN [raised |-> FALSE,
          value |-> Some([enabled |-> r[GOODWE_EXPORT_SWITCH_REG],
                          pct |-> r[GOODWE_ACTIVE_PCT_REG], pct10 |-> 0])]
    ELSE [raised |-> FALSE,
          value |-> Some([enabled |-> r[GOODWE_EXPORT_SWITCH_REG],
                          pct |-> r[GOODWE_EXPORT_PCT_REG],
                          pct10 |-> r[GOODWE_EXPORT_PCT10_REG]])]

\* ----------------------------------------------- GoodWeRuntimeReader

PinnedProfiles == {"dns", "mt", "off", "none", "disabled"}
OffProfiles == {"off", "none", "disabled"}

\* GoodWeRuntimeReader.__init__: _resolved_profile
reader_init(profile) == IF profile \in PinnedProfiles THEN Some(profile) ELSE None

\* _read_dns / _read_mt under one profile: the snapshot, or the exception
\* of the bus read or of the decode when ok is FALSE.
read_profile(candidate, ok) ==
    IF ok THEN [raised |-> FALSE, runtime |-> candidate]
    ELSE [raised |-> TRUE, runtime |-> "none"]

\* reader_read probing again, under profile auto, when the read under the
\* resolved profile fails
reader_read_reprobe(profile, resolved, probe_err, dns_ok, mt_ok) ==
    LET keep(rt, probed) ==
            [raised |-> rt.raised, runtime |-> rt.runtime,
             resolved |-> resolved, probe_err |-> probe_err, probed |-> probed]
        off == [raised |-> FALSE, runtime |-> "off", resolved |-> resolved,
                probe_err |-> probe_err, probed |-> <<>>]
    IN  IF profile \in OffProfiles THEN off
        ELSE IF profile = "dns" THEN keep(read_profile("dns", dns_ok), <<"dns">>)
        ELSE IF profile = "mt" THEN keep(read_profile("mt", mt_ok), <<"mt">>)
        ELSE IF profile = "auto" THEN
            IF resolved = Some("mt") /\ mt_ok
            THEN keep(read_profile("mt", mt_ok), <<"mt">>)
            ELSE IF resolved # None /\ Get(resolved) \in OffProfiles THEN off
            ELSE IF dns_ok
            THEN [raised |-> FALSE, runtime |-> "dns", resolved |-> Some("dns"),
                  probe_err |-> probe_err, probed |-> <<"dns">>]
            ELSE IF mt_ok
            THEN [raised |-> FALSE, runtime |-> "mt", resolved |-> Some("mt"),
                  probe_err |-> Some("dns"), probed |-> <<"dns", "mt">>]
            ELSE [raised |-> FALSE, runtime |-> "off", resolved |-> Some("off"),
                  probe_err |-> Some("mt"), probed |-> <<"dns", "mt">>]
        ELSE off

\* reader_read probing mt under profile auto although dns answered
reader_read_probes_both(profile, resolved, probe_err, dns_ok, mt_ok) ==
    LET keep(rt, probed) ==
            [raised |-> rt.raised, runtime |-> rt.runtime,
             resolved |-> resolved, probe_err |-> probe_err, probed |-> probed]
        off == [raised |-> FALSE, runtime |-> "off", resolved |-> resolved,
                probe_err |-> probe_err, probed |-> <<>>]
    IN  IF profile \in OffProfiles THEN off
        ELSE IF profile = "dns" THEN keep(read_profile("dns", dns_ok), <<"dns">>)
        ELSE IF profile = "mt" THEN keep(read_profile("mt", mt_ok), <<"mt">>)
        ELSE IF profile = "auto" THEN
            IF resolved = Some("dns") THEN keep(read_profile("dns", dns_ok), <<"dns">>)
            ELSE IF resolved = Some("mt") THEN keep(read_profile("mt", mt_ok), <<"mt">>)
            ELSE IF resolved # None /\ Get(resolved) \in OffProfiles THEN off
            ELSE IF dns_ok
            THEN [raised |-> FALSE, runtime |-> "dns", resolved |-> Some("dns"),
                  probe_err |-> IF mt_ok THEN probe_err ELSE Some("mt"),
                  probed |-> <<"dns", "mt">>]
            ELSE IF mt_ok
            THEN [raised |-> FALSE, runtime |-> "mt", resolved |-> Some("mt"),
                  probe_err |-> Some("dns"), probed |-> <<"dns", "mt">>]
            ELSE [raised |-> FALSE, runtime |-> "off", resolved |-> Some("off"),
                  probe_err |-> Some("mt"), probed |-> <<"dns", "mt">>]
        ELSE off

\* GoodWeRuntimeReader.read.  dns_ok / mt_ok: whether _read_dns / _read_mt
\* would succeed on this call.  runtime is the register map the snapshot
\* was decoded under, "off" for the placeholder snapshot.
reader_read(profile, resolved, probe_err, dns_ok, mt_ok) ==
    LET keep(rt, probed) ==
            [raised |-> rt.raised, runtime |-> rt.runtime,
             resolved |-> resolved, probe_err |-> probe_err, probed |-> probed]
        off == [raised |-> FALSE, runtime |-> "off", resolved |-> resolved,
                probe_err |-> probe_err, probed |-> <<>>]
    IN  IF profile \in OffProfiles THEN off
        ELSE IF profile = "dns" THEN keep(read_profile("dns", dns_ok), <<"dns">>)
        ELSE IF profile = "mt" THEN keep(read_profile("mt", mt_ok), <<"mt">>)
        ELSE IF profile = "auto" THEN
            IF resolved = Some("dns") THEN keep(read_profile("dns", dns_ok), <<"dns">>)
            ELSE IF resolved = Some("mt") THEN keep(read_profile("mt", mt_ok), <<"mt">>)
            ELSE IF resolved # None /\ Get(resolved) \in OffProfiles THEN off
            ELSE IF dns_ok
            THEN [raised |-> FALSE, runtime |-> "dns", resolved |-> Some("dns"),
                  probe_err |-> probe_err, probed |-> <<"dns">>]
            ELSE IF mt_ok
            THEN [raised |-> FALSE, runtime |-> "mt", resolved |-> Some("mt"),
                  probe_err |-> Some("dns"), probed |-> <<"dns", "mt">>]
            ELSE [raised |-> FALSE, runtime |-> "off", resolved |-> Some("off"),
                  probe_err |-> Some("mt"), probed |-> <<"dns", "mt">>]
        ELSE off

\* ------------------------------------------------------------ pollers

\* AmberPoller._run, success path: the snapshot it publishes.
AmberSnapshotOk(ts, feed_c) ==
    [ts |-> ts, feedin_c |-> feed_c, last_error |-> FALSE]

\* AmberSnapshotErr keeping a price in the snapshot of a failed poll
AmberSnapshotErr_with_price(ts) ==
    [ts |-> ts, feedin_c |-> Some(EXPORT_COST_THRESHOLD_C), last_error |-> TRUE]

\* AmberPoller._run, error path: null prices and the error text
AmberSnapshotErr(ts) ==
    [ts |-> ts, feedin_c |-> None, last_error |-> TRUE]

\* AmberPoller.is_ok at time t: the age is the elapsed time, not truncated
is_ok(snap, t) ==
    IF IsNone(snap) THEN FALSE
    ELSE (t - Get(snap).ts) <= AMBER_MAX_STALE_SEC * TicksPerSec
         /\ ~IsNone(Get(snap).feedin_c)

\* AlphaEssOpenApiPoller._run: the snapshot built from one reply, with the
\* sign normalisation and the battery state classification.
AlphaEssSnapshot(ts, raw) ==
    LET pbat == IF IsNone(raw.pbat) THEN None
                ELSE Some(IF ALPHAESS_PBAT_POSITIVE_IS_CHARGE
                          THEN Get(raw.pbat) ELSE -Get(raw.pbat))
        pgrid == IF IsNone(raw.pgrid) THEN None
                 ELSE Some(IF ALPHAESS_PGRID_POSITIVE_IS_IMPORT
                           THEN Get(raw.pgrid) ELSE -Get(raw.pgrid))
        state == IF IsNone(pbat) THEN "unknown"
                 ELSE IF Abs(Get(pbat)) < ALPHAESS_PBAT_IDLE_THRESHOLD_W THEN "idle"
                 ELSE IF Get(pbat) > 0 THEN "charging" ELSE "discharging"
    IN  [ts |-> ts,
         pload_w |-> raw.pload,
         pbat_w_raw |-> raw.pbat,
         pgrid_w_raw |-> raw.pgrid,
         pbat_w |-> pbat,
         pgrid_w |-> pgrid,
         soc_pct |-> raw.soc,
         batt_state |-> state,
         charge_w |-> IF state = "charging" THEN Abs(Get(pbat)) ELSE 0,
         discharge_w |-> IF state = "discharging" THEN Abs(Get(pbat)) ELSE 0,
         grid_import_w |-> IF ~IsNone(pgrid) /\ Get(pgrid) > 0 THEN Get(pgrid) ELSE 0,
         grid_export_w |-> IF ~IsNone(pgrid) /\ Get(pgrid) < 0 THEN Abs(Get(pgrid)) ELSE 0]


\* -------------------------------------- threads sharing the snapshots

\* The battery poller mutates the snapshot it has constructed, so its
\* objects live on a heap (a sequence; a reference is an index, 0 is None):
\* a write through one reference is seen through every other.  The price
\* poller builds each snapshot in one constructor call and no statement
\* assigns to a field of one: its snapshots are values.

\* the exit of "with self._lock" leaving the lock with its holder
with_lock_exit_keeps(holder) == holder

\* the exit of "with self._lock": the lock is released
with_lock_exit(holder) == "free"

\* AlphaEssSnapshot(...) as constructed in _run: the normalised fields at
\* the defaults of the dataclass
alpha_construct(ts, raw) ==
    [ts |-> ts,
     pload_w |-> raw.pload,
     pbat_w_raw |-> raw.pbat,
     pgrid_w_raw |-> raw.pgrid,
     pbat_w |-> None,
     pgrid_w |-> None,
     soc_pct |-> raw.soc,
     batt_state |-> "unknown",
     charge_w |-> 0,
     discharge_w |-> 0,
     grid_import_w |-> 0,
     grid_export_w |-> 0]

\* _run, "if pbat is not None": sign and battery state written into snap
alpha_normalise_pbat(snap) ==
    IF IsNone(snap.pbat_w_raw) THEN snap
    ELSE LET pbat == IF ALPHAESS_PBAT_POSITIVE_IS_CHARGE
                     THEN Get(snap.pbat_w_raw) ELSE -Get(snap.pbat_w_raw)
         IN  IF Abs(pbat) < ALPHAESS_PBAT_IDLE_THRESHOLD_W
             THEN [snap EXCEPT !.pbat_w = Some(pbat), !.batt_state = "idle"]
             ELSE IF pbat > 0
             THEN [snap EXCEPT !.pbat_w = Some(pbat), !.batt_state = "charging",
                               !.charge_w = Abs(pbat)]
             ELSE [snap EXCEPT !.pbat_w = Some(pbat), !.batt_state = "discharging",
                               !.discharge_w = Abs(pbat)]

\* _run, "if pgrid is not None": sign and import / export written into snap
alpha_normalise_pgrid(snap) ==
    IF IsNone(snap.pgrid_w_raw) THEN snap
    ELSE LET pgrid == IF ALPHAESS_PGRID_POSITIVE_IS_IMPORT
                      THEN Get(snap.pgrid_w_raw) ELSE -Get(snap.pgrid_w_raw)
         IN  IF pgrid > 0
             THEN [snap EXCEPT !.pgrid_w = Some(pgrid), !.grid_import_w = pgrid]
             ELSE IF pgrid < 0
             THEN [snap EXCEPT !.pgrid_w = Some(pgrid), !.grid_export_w = Abs(pgrid)]
             ELSE [snap EXCEPT !.pgrid_w = Some(pgrid)]

\* alpha_run_next publishing the snapshot before normalising it
alpha_run_next_publish_first(at) ==
    IF at = "fetch" THEN "construct"
    ELSE IF at = "construct" THEN "set_snapshot"
    ELSE IF at = "set_snapshot" THEN "set_snapshot_locked"
    ELSE IF at = "set_snapshot_locked" THEN "normalise_pbat"
    ELSE IF at = "normalise_pbat" THEN "normalise_pgrid"
    ELSE IF at = "normalise_pgrid" THEN "sleep"
    ELSE IF at = "set_error" THEN "set_error_locked"
    ELSE IF at = "set_error_locked" THEN "sleep"
    ELSE "fetch"

\* AlphaEssOpenApiPoller._run: the statement after the one at `at` when no
\* exception is raised
alpha_run_next(at) ==
    IF at = "fetch" THEN "construct"
    ELSE IF at = "construct" THEN "normalise_pbat"
    ELSE IF at = "normalise_pbat" THEN "normalise_pgrid"
    ELSE IF at = "normalise_pgrid" THEN "set_snapshot"
    ELSE IF at = "set_snapshot" THEN "set_snapshot_locked"
    ELSE IF at = "set_snapshot_locked" THEN "sleep"
    ELSE IF at = "set_error" THEN "set_error_locked"
    ELSE IF at = "set_error_locked" THEN "sleep"
    ELSE "fetch"

\* the positions of the loop's tick at which it is inside a bus call
BusCalls == {"runtime_read", "read_current", "set_limit_pct"}

\* both pollers started, nothing fetched yet, the loop at the top of a tick
ThreadsInit ==
    [heap |-> <<>>,
     alpha |-> [at |-> "fetch", snap |-> 0, raw |-> None],
     alpha_last_snapshot |-> 0,
     alpha_last_error |-> FALSE,
     alpha_lock |-> "free",
     amber |-> [at |-> "fetch", snap |-> None],
     amber_snapshot |-> None,
     amber_lock |-> "free",
     main |-> [at |-> "get_amber", amber_snap |-> None, alpha_snap |-> 0,
               published_in_bus_call |-> FALSE]]

\* ---------------------------------------------- main(), start to exit

\* A poller as main() and its own thread see it.  thread: "none" (not
\* started), "check" (at "while not self._stop.is_set()"), "fetch" (in the
\* network call), "chunk" (battery poller, at the head of its sleep loop),
\* "sleeping" (in time.sleep, timer clock units to go), "done" (_run
\* returned).  left: for the price poller the clock units until
\* _next_due_ts, for the battery poller the iterations of the sleep loop to
\* go.  since_stop, at_stop, fetched_after_stop: clock units since close()
\* set the stop flag (counted up to one second and one unit), where the
\* thread was then, whether it started a fetch since.  join, join_left: the
\* join of close() and the clock units of its timeout to go.
PollerInit ==
    [thread |-> "none", timer |-> 0, left |-> 0, stop |-> FALSE, since_stop |-> 0,
     at_stop |-> "none", fetched_after_stop |-> FALSE, join |-> "none", join_left |-> 0]

\* main() before its first statement.  at: "start", "connect",
\* "alpha_init", "tick", "sleep" (the loop), "cleanup" (the close calls in
\* todo are being made; status `leave` follows them), "exited".  bus: the
\* client of GoodWeModbus, "none" before connect().
ProcInit ==
    [at |-> "start", status |-> "running", cause |-> "none", todo |-> <<>>,
     leave |-> "running", bus |-> "none", amber |-> PollerInit, alpha |-> PollerInit]

\* sleep_len sleeping until the poll is due in one call
sleep_len_whole(left) == left

\* AmberPoller._run: time.sleep(min(1.0, due - now)), in clock units
sleep_len(left) == Min(POLLER_SLEEP_CHUNK_SEC * TicksPerSec, left)

\* a thread leaving the head of its loop for a fetch
start_fetch(p) ==
    [p EXCEPT !.thread = "fetch", !.fetched_after_stop = (@ \/ p.stop)]

\* a thread returning from _run
finish(p) == [p EXCEPT !.thread = "done", !.timer = 0, !.left = 0]

\* AmberPoller._run at the head of its loop: it ends when the stop flag is
\* set, sleeps at most a second when the next poll is not due, fetches
\* otherwise
amber_check(p) ==
    IF p.stop THEN finish(p)
    ELSE IF p.left > 0
    THEN [p EXCEPT !.thread = "sleeping", !.timer = sleep_len(p.left)]
    ELSE start_fetch(p)

\* AlphaEssOpenApiPoller._run at the head of its loop
alpha_check(p) ==
    IF p.stop THEN finish(p) ELSE start_fetch(p)

\* AlphaEssOpenApiPoller._run, "for _ in range(interval)": the loop ends
\* after interval iterations or when the stop flag is set, and sleeps a
\* second otherwise
alpha_chunk(p) ==
    IF p.left = 0 \/ p.stop
    THEN [p EXCEPT !.thread = "check", !.left = 0]
    ELSE [p EXCEPT !.thread = "sleeping", !.left = @ - 1,
                   !.timer = POLLER_SLEEP_CHUNK_SEC * TicksPerSec]

\* close() of a poller, as the steps main() goes through
close_steps(poller) == <<<<poller, "stop">>, <<poller, "join">>>>

\* the finally clause of main(): the close calls it makes
finally_steps(alpha_started) ==
    close_steps("amber")
      \o (IF alpha_started THEN close_steps("alpha") ELSE <<>>)
      \o <<<<"bus", "close">>>>

\* self._stop.set() in close()
set_stop(p) ==
    IF p.stop THEN p
    ELSE [p EXCEPT !.stop = TRUE, !.since_stop = 0, !.at_stop = p.thread]

\* one clock unit passing for a poller
elapse(p, by_clock) ==
    [p EXCEPT !.timer = IF p.thread = "sleeping" THEN @ - 1 ELSE @,
              !.left = IF by_clock /\ p.thread \in {"sleeping", "fetch"}
                       THEN Max(0, @ - 1) ELSE @,
              !.since_stop = IF p.stop THEN Min(@ + 1, TicksPerSec + 1) ELSE @,
              !.join_left = IF p.join = "waiting" THEN @ - 1 ELSE @]

\* ------------------------------------------------- main(): one tick

\* int(time.time() - snap.ts): whole seconds, truncated
age_s(t, ts) == IntTrunc(t - ts, TicksPerSec)

\* amber_gate without the age check: a stale snapshot's price is trusted
amber_gate_no_age(snap, t) ==
    IF IsNone(snap)
    THEN [amber_ok |-> FALSE, export_costs |-> TRUE, amber_state |-> "none"]
    ELSE LET feed_c == Get(snap).feedin_c
         IN  IF ~IsNone(feed_c)
             THEN [amber_ok |-> TRUE,
                   export_costs |-> Get(feed_c) < EXPORT_COST_THRESHOLD_C,
                   amber_state |-> "ok"]
             ELSE [amber_ok |-> FALSE, export_costs |-> TRUE, amber_state |-> "stale"]

\* amber_gate with the age compared by < instead of <=
amber_gate_strict(snap, t) ==
    IF IsNone(snap)
    THEN [amber_ok |-> FALSE, export_costs |-> TRUE, amber_state |-> "none"]
    ELSE LET feed_c == Get(snap).feedin_c
             ok == age_s(t, Get(snap).ts) < AMBER_MAX_STALE_SEC /\ ~IsNone(feed_c)
         IN  IF ok
             THEN [amber_ok |-> TRUE,
                   export_costs |-> ~IsNone(feed_c) /\ Get(feed_c) < EXPORT_COST_THRESHOLD_C,
                   amber_state |-> "ok"]
             ELSE [amber_ok |-> FALSE, export_costs |-> TRUE, amber_state |-> "stale"]

\* main(), Amber staleness gate and export_costs
amber_gate(snap, t) ==
    IF IsNone(snap)
    THEN [amber_ok |-> FALSE, export_costs |-> TRUE, amber_state |-> "none"]
    ELSE LET feed_c == Get(snap).feedin_c
             ok == age_s(t, Get(snap).ts) <= AMBER_MAX_STALE_SEC /\ ~IsNone(feed_c)
         IN  IF ok
             THEN [amber_ok |-> TRUE,
                   export_costs |-> ~IsNone(feed_c) /\ Get(feed_c) < EXPORT_COST_THRESHOLD_C,
                   amber_state |-> "ok"]
             ELSE [amber_ok |-> FALSE, export_costs |-> TRUE, amber_state |-> "stale"]

\* alpha_gate without the age check
alpha_gate_no_age(poller, snap, t) ==
    IF ~poller \/ IsNone(snap) THEN FALSE
    ELSE ~IsNone(Get(snap).pload_w)

\* main(), AlphaESS staleness gate
alpha_gate(poller, snap, t) ==
    IF ~poller \/ IsNone(snap) THEN FALSE
    ELSE age_s(t, Get(snap).ts) <= ALPHAESS_MAX_STALE_SEC /\ ~IsNone(Get(snap).pload_w)

\* clamp_round_w without the clamp to 0 .. GOODWE_RATED_W
clamp_round_w_unclamped(n) == RoundHalfEven(n, ALPHAESS_GRID_FEEDBACK_GAIN_DEN)

\* round(max(0.0, min(float(GOODWE_RATED_W), target_w_f))) for the rational
\* target_w_f = n / ALPHAESS_GRID_FEEDBACK_GAIN_DEN
clamp_round_w(n) ==
    LET d == ALPHAESS_GRID_FEEDBACK_GAIN_DEN
    IN  RoundHalfEven(Max(0, Min(GOODWE_RATED_W * d, n)), d)

\* target_below_full with no export allowance: any export is throttled
target_below_full_no_allow(snap, lls) ==
    LET export_w == snap.grid_export_w
        import_w == snap.grid_import_w
    IN  IF export_w <= 0
        THEN [target_w |-> GOODWE_RATED_W, reason |-> "soc_below_full_export_within_allow",
              auto_add_w |-> 0]
        ELSE LET prev_pct_for_target == IF lls # None THEN lls[2] ELSE 100
                 prev_target_w == RoundHalfEven(prev_pct_for_target * GOODWE_RATED_W, 100)
                 d == ALPHAESS_GRID_FEEDBACK_GAIN_DEN
                 g == ALPHAESS_GRID_FEEDBACK_GAIN_NUM
                 f0 == prev_target_w * d - g * export_w
                 f1 == IF import_w > 0 THEN f0 + g * import_w ELSE f0
             IN  [target_w |-> clamp_round_w(f1),
                  reason |-> "soc_below_full_export_over_allow", auto_add_w |-> 0]

\* target_below_full throttling from the rated watts instead of the
\* previously commanded percentage
target_below_full_from_rated(snap, lls) ==
    LET allow_export_w == Max(0, ALPHAESS_EXPORT_ALLOW_W_BELOW_FULL_SOC)
        export_w == snap.grid_export_w
        import_w == snap.grid_import_w
    IN  IF export_w <= allow_export_w
        THEN [target_w |-> GOODWE_RATED_W, reason |-> "soc_below_full_export_within_allow",
              auto_add_w |-> 0]
        ELSE LET over_w == export_w - allow_export_w
                 d == ALPHAESS_GRID_FEEDBACK_GAIN_DEN
                 g == ALPHAESS_GRID_FEEDBACK_GAIN_NUM
                 f0 == GOODWE_RATED_W * d - g * over_w
                 f1 == IF import_w > 0 THEN f0 + g * import_w ELSE f0
             IN  [target_w |-> clamp_round_w(f1),
                  reason |-> "soc_below_full_export_over_allow", auto_add_w |-> 0]

\* main(), SOC below full: export allowance branch
target_below_full(snap, lls) ==
    LET allow_export_w == Max(0, ALPHAESS_EXPORT_ALLOW_W_BELOW_FULL_SOC)
        export_w == snap.grid_export_w
        import_w == snap.grid_import_w
    IN  IF export_w <= allow_export_w
        THEN [target_w |-> GOODWE_RATED_W, reason |-> "soc_below_full_export_within_allow",
              auto_add_w |-> 0]
        ELSE LET prev_pct_for_target == IF lls # None THEN lls[2] ELSE 100
                 prev_target_w == RoundHalfEven(prev_pct_for_target * GOODWE_RATED_W, 100)
                 over_w == export_w - allow_export_w
                 d == ALPHAESS_GRID_FEEDBACK_GAIN_DEN
                 g == ALPHAESS_GRID_FEEDBACK_GAIN_NUM
                 f0 == prev_target_w * d - g * over_w
                 f1 == IF import_w > 0 THEN f0 + g * import_w ELSE f0
             IN  [target_w |-> clamp_round_w(f1),
                  reason |-> "soc_below_full_export_over_allow", auto_add_w |-> 0]

\* target_full without the import bias
target_full_no_bias(snap) ==
    LET pload_w == IF IsNone(snap.pload_w) THEN 0 ELSE Get(snap.pload_w)
        base_w == Max(0, pload_w + snap.charge_w)
        d == ALPHAESS_GRID_FEEDBACK_GAIN_DEN
        g == ALPHAESS_GRID_FEEDBACK_GAIN_NUM
        f == IF IsNone(snap.pgrid_w) THEN base_w * d
             ELSE base_w * d + g * snap.grid_import_w - g * snap.grid_export_w
    IN  [target_w |-> clamp_round_w(f), reason |-> "pload_charge", auto_add_w |-> 0]

\* main(), battery full (or SOC unknown): load + charge with grid feedback
target_full(snap) ==
    LET pload_w == IF IsNone(snap.pload_w) THEN 0 ELSE Get(snap.pload_w)
        measured_charge_w == snap.charge_w
        cap == Max(0, Min(ALPHAESS_AUTO_CHARGE_W, ALPHAESS_AUTO_CHARGE_MAX_W))
        auto == /\ ~IsNone(snap.soc_pct)
                /\ ALPHAESS_AUTO_CHARGE_W > 0
                /\ ALPHAESS_AUTO_CHARGE_BELOW_SOC_PCT_X10 > 0
                /\ Get(snap.soc_pct) < ALPHAESS_AUTO_CHARGE_BELOW_SOC_PCT_X10
                /\ cap > measured_charge_w
        auto_add_w == IF auto THEN cap - measured_charge_w ELSE 0
        desired_charge_w == IF auto THEN cap ELSE measured_charge_w
        base_w == Max(0, pload_w + desired_charge_w)
        d == ALPHAESS_GRID_FEEDBACK_GAIN_DEN
        g == ALPHAESS_GRID_FEEDBACK_GAIN_NUM
        f == IF IsNone(snap.pgrid_w) THEN base_w * d
             ELSE base_w * d + g * snap.grid_import_w - g * snap.grid_export_w
                  - ALPHAESS_GRID_IMPORT_BIAS_W * d
    IN  [target_w |-> clamp_round_w(f), reason |-> "pload_charge",
         auto_add_w |-> auto_add_w]

\* decide_target with the battery check placed before the price check
decide_target_battery_first(export_costs, poller, alpha_ok, snap, lls) ==
    IF ~alpha_ok
    THEN [target_w |-> 0,
          reason |-> IF poller THEN "alpha_stale" ELSE "alpha_disabled",
          auto_add_w |-> 0]
    ELSE IF export_costs
    THEN LET soc == Get(snap).soc_pct
             batt_not_full == ~IsNone(soc) /\ Get(soc) < ALPHAESS_FULL_SOC_PCT_X10
         IN  IF batt_not_full THEN target_below_full(Get(snap), lls)
             ELSE target_full(Get(snap))
    ELSE [target_w |-> GOODWE_RATED_W, reason |-> "export_allowed", auto_add_w |-> 0]

\* decide_target taking a snapshot without SOC as below full
decide_target_unknown_soc_below_full(export_costs, poller, alpha_ok, snap, lls) ==
    IF export_costs
    THEN IF ~alpha_ok
         THEN [target_w |-> 0,
               reason |-> IF poller THEN "alpha_stale" ELSE "alpha_disabled",
               auto_add_w |-> 0]
         ELSE LET soc == Get(snap).soc_pct
                  batt_not_full == IsNone(soc) \/ Get(soc) < ALPHAESS_FULL_SOC_PCT_X10
              IN  IF batt_not_full THEN target_below_full(Get(snap), lls)
                  ELSE target_full(Get(snap))
    ELSE [target_w |-> GOODWE_RATED_W, reason |-> "export_allowed", auto_add_w |-> 0]

\* main(), the decision policy: raw target watts and reason tag
decide_target(export_costs, poller, alpha_ok, snap, lls) ==
    IF export_costs
    THEN IF ~alpha_ok
         THEN [target_w |-> 0,
               reason |-> IF poller THEN "alpha_stale" ELSE "alpha_disabled",
               auto_add_w |-> 0]
         ELSE LET soc == Get(snap).soc_pct
                  batt_not_full == ~IsNone(soc) /\ Get(soc) < ALPHAESS_FULL_SOC_PCT_X10
              IN  IF batt_not_full THEN target_below_full(Get(snap), lls)
                  ELSE target_full(Get(snap))
    ELSE [target_w |-> GOODWE_RATED_W, reason |-> "export_allowed", auto_add_w |-> 0]

\* smooth with the weight of the raw value not reduced by the factor
smooth_unnormalised(prev_pct, target_pct_raw, a, d) ==
    LET target_pct == IF a > 0
                      THEN RoundHalfEven(prev_pct * a + target_pct_raw * d, d)
                      ELSE target_pct_raw
    IN  Max(0, Min(100, target_pct))

\* main(), smoothing with LIMIT_SMOOTHING = a / d and re-clamp
smooth(prev_pct, target_pct_raw, a, d) ==
    LET target_pct == IF a > 0
                      THEN RoundHalfEven(prev_pct * a + target_pct_raw * (d - a), d)
                      ELSE target_pct_raw
    IN  Max(0, Min(100, target_pct))

\* main(), the smoothed percentage of a tick
smooth_pct(lls, target_pct_raw) ==
    LET prev_pct == IF lls # None THEN lls[2] ELSE target_pct_raw
    IN  smooth(prev_pct, target_pct_raw, LIMIT_SMOOTHING_NUM, LIMIT_SMOOTHING_DEN)

\* can_write gated by the loop period instead of the write interval
can_write_sleep_period(t, last_ts) == (t - last_ts) >= SLEEP_SECONDS * TicksPerSec

\* main(): can_write
can_write(t, last_ts) == (t - last_ts) >= MIN_SECONDS_BETWEEN_WRITES * TicksPerSec

\* need_write without the minimum-step comparison
need_write_always(lls, want_enabled, want_pct) ==
    IF lls = None THEN TRUE
    ELSE IF lls[1] # want_enabled THEN TRUE
    ELSE TRUE

\* main(): need_write
need_write(lls, want_enabled, want_pct) ==
    IF lls = None THEN TRUE
    ELSE IF lls[1] # want_enabled THEN TRUE
    ELSE Abs(lls[2] - want_pct) >= MIN_PCT_STEP

\* write_result recording the write time also when the write raised
write_result_stamps_failure(ok, lls, last_ts, want_enabled, want_pct, t) ==
    IF ok THEN [lls |-> <<want_enabled, want_pct>>, ts |-> t]
    ELSE [lls |-> lls, ts |-> t]

\* main(): the try around limiter.set_limit_pct; ok is FALSE when it raised
write_result(ok, lls, last_ts, want_enabled, want_pct, t) ==
    IF ok THEN [lls |-> <<want_enabled, want_pct>>, ts |-> t]
    ELSE [lls |-> lls, ts |-> last_ts]

\* tick_boundary without the except clause: a raising tick leaves the loop
tick_boundary_uncaught(raised) == IF raised THEN "exit" ELSE "sleep"

\* main(): "except Exception" around the tick body, then time.sleep
tick_boundary(raised) == "sleep"


\* ------------------------------------------------------------ actions

StartTime == MIN_SECONDS_BETWEEN_WRITES * TicksPerSec
MaxTime == StartTime + Horizon

\* configurations the loop is run under
Configs ==
    {[always_enabled |-> TRUE, mode |-> "pct", alpha_enabled |-> TRUE,
      runtime_profile |-> "off"],
     [always_enabled |-> FALSE, mode |-> "active_pct", alpha_enabled |-> FALSE,
      runtime_profile |-> "dns"],
     [always_enabled |-> FALSE, mode |-> "pct", alpha_enabled |-> FALSE,
      runtime_profile |-> "auto"]}

\* feed-in prices (cents) a price reply may carry
FeedSamples == {Some(-2), Some(5)}

\* AlphaESS replies: pLoad, pBat, pGrid in watts, soc in tenths of a percent
AlphaSamples ==
    {[pload |-> Some(500), pbat |-> Some(0), pgrid |-> Some(0), soc |-> Some(1000)],
     [pload |-> Some(500), pbat |-> Some(300), pgrid |-> Some(-200), soc |-> Some(800)]}

\* the inverter's registers before the first write
RegsInit ==
    [r \in {GOODWE_EXPORT_SWITCH_REG, GOODWE_EXPORT_PCT_REG,
            GOODWE_EXPORT_PCT10_REG, GOODWE_ACTIVE_PCT_REG} |->
        IF r = GOODWE_EXPORT_SWITCH_REG THEN 0
        ELSE IF r = GOODWE_EXPORT_PCT10_REG THEN 1000 ELSE 100]

\* nothing computed yet / not computed by an aborted tick
OutNone ==
    [phase |-> "none", export_costs |-> TRUE, amber_state |-> "none",
     runtime |-> "none", alpha_ok |-> FALSE, target_w |-> -1, reason |-> "none",
     target_pct_raw |-> -1, want_pct |-> -1, want_enabled |-> -1,
     can_write |-> FALSE, need_write |-> FALSE, current_limit |-> None,
     write_attempted |-> FALSE, write_ok |-> FALSE, writes |-> <<>>,
     probed |-> <<>>, auto_add_w |-> 0]

Init ==
    /\ cfg \in Configs
    /\ now = StartTime
    /\ pc = "tick"
    /\ last_limit_state = None
    /\ last_write_ts = 0
    /\ amber_snap = None
    /\ alpha_snap = None
    /\ alpha_last_error = FALSE
    /\ resolved_profile = reader_init(cfg.runtime_profile)
    /\ last_probe_error = None
    /\ regs = RegsInit
    /\ modbus = ModbusInit
    /\ threads = ThreadsInit
    /\ proc = ProcInit
    /\ out = OutNone

\* The pollers run on their own threads; the loop reads each published
\* snapshot once per tick, so a tick is atomic with respect to them and the
\* model lets them publish between ticks.

\* AmberPoller._run: a poll that succeeded
AmberPollOk ==
    /\ pc = "sleep"
    /\ \E feed_c \in FeedSamples :
          amber_snap' = Some(AmberSnapshotOk(now, feed_c))
    /\ UNCHANGED <<threads, proc, modbus, cfg, now, pc, last_limit_state, last_write_ts, alpha_snap,
                   alpha_last_error, resolved_profile, last_probe_error, regs, out>>

\* AmberPoller._run: a poll that raised
AmberPollFail ==
    /\ pc = "sleep"
    /\ amber_snap' = Some(AmberSnapshotErr(now))
    /\ UNCHANGED <<threads, proc, modbus, cfg, now, pc, last_limit_state, last_write_ts, alpha_snap,
                   alpha_last_error, resolved_profile, last_probe_error, regs, out>>

\* _set_error also dropping the published snapshot
set_error_wipes_snapshot(last_snapshot) ==
    [last_snapshot |-> None, last_error |-> TRUE]

\* AlphaEssOpenApiPoller._set_error: the poller's fields after it
set_error(last_snapshot) ==
    [last_snapshot |-> last_snapshot, last_error |-> TRUE]

\* AlphaEssOpenApiPoller._set_snapshot: the poller's fields after it
set_snapshot(snap) ==
    [last_snapshot |-> Some(snap), last_error |-> FALSE]

\* AlphaEssOpenApiPoller._run: a poll that succeeded
AlphaPollOk ==
    /\ cfg.alpha_enabled
    /\ pc = "sleep"
    /\ \E raw \in AlphaSamples :
          LET p == set_snapshot(AlphaEssSnapshot(now, raw))
          IN  /\ alpha_snap' = p.last_snapshot
              /\ alpha_last_error' = p.last_error
    /\ UNCHANGED <<threads, proc, modbus, cfg, now, pc, last_limit_state, last_write_ts, amber_snap,
                   resolved_profile, last_probe_error, regs, out>>

\* AlphaEssOpenApiPoller._run: a poll that raised
AlphaPollFail ==
    /\ cfg.alpha_enabled
    /\ pc = "sleep"
    /\ LET p == set_error(alpha_snap)
       IN  /\ alpha_snap' = p.last_snapshot
           /\ alpha_last_error' = p.last_error
    /\ UNCHANGED <<threads, proc, modbus, cfg, now, pc, last_limit_state, last_write_ts, amber_snap,
                   resolved_profile, last_probe_error, regs, out>>

\* One iteration of the body of "while True" in main(): the values of the
\* loop's state after it.  dns_ok, mt_ok, cur_ok: whether the runtime reads
\* and the limiter read-back succeed on the bus; n_ok: how many of the
\* limiter's register writes succeed.
TickBody(dns_ok, mt_ok, cur_ok, n_ok) ==
    LET am == amber_gate(amber_snap, now)
        rd == reader_read(cfg.runtime_profile, resolved_profile, last_probe_error,
                          dns_ok, mt_ok)
        a_ok == alpha_gate(cfg.alpha_enabled, alpha_snap, now)
        dec == decide_target(am.export_costs, cfg.alpha_enabled, a_ok, alpha_snap,
                             last_limit_state)
        target_pct_raw == pct_from_watts(dec.target_w, GOODWE_RATED_W)
        want_pct == smooth_pct(last_limit_state, target_pct_raw)
        want_enabled == IF am.export_costs THEN 1 ELSE 0
        cw == can_write(now, last_write_ts)
        cur == read_current(regs, cfg.mode, cur_ok)
        nw == need_write(last_limit_state, want_enabled, want_pct)
        ws == set_limit_pct(want_enabled = 1, want_pct, cfg.mode, cfg.always_enabled)
        n == Min(n_ok, Len(ws))
        wr == write_result(n = Len(ws), last_limit_state, last_write_ts,
                           want_enabled, want_pct, now)
        base == [OutNone EXCEPT !.export_costs = am.export_costs,
                                !.amber_state = am.amber_state,
                                !.probed = rd.probed]
        decided == [base EXCEPT !.runtime = rd.runtime, !.alpha_ok = a_ok,
                                !.target_w = dec.target_w, !.reason = dec.reason,
                                !.auto_add_w = dec.auto_add_w,
                                !.target_pct_raw = target_pct_raw,
                                !.want_pct = want_pct, !.want_enabled = want_enabled,
                                !.can_write = cw]
        kept == [resolved_profile |-> rd.resolved, last_probe_error |-> rd.probe_err,
                 last_limit_state |-> last_limit_state, last_write_ts |-> last_write_ts,
                 regs |-> regs, out |-> base, pc |-> tick_boundary(FALSE)]
    IN  IF rd.raised
        THEN [kept EXCEPT !.out = [base EXCEPT !.phase = "runtime_raised"],
                          !.pc = tick_boundary(TRUE)]
        ELSE IF cur.raised
        THEN [kept EXCEPT !.out = [decided EXCEPT !.phase = "read_current_raised"],
                          !.pc = tick_boundary(TRUE)]
        ELSE IF cw /\ nw
        THEN [kept EXCEPT !.regs = write_u16s(regs, ws, n),
                          !.out = [decided EXCEPT !.phase = "done", !.need_write = nw,
                                                  !.current_limit = cur.value,
                                                  !.write_attempted = TRUE,
                                                  !.write_ok = (n = Len(ws)),
                                                  !.writes = SubSeq(ws, 1, Min(n + 1, Len(ws)))],
                          !.last_limit_state = wr.lls,
                          !.last_write_ts = wr.ts]
        ELSE [kept EXCEPT !.out = [decided EXCEPT !.phase = "done", !.need_write = nw,
                                                  !.current_limit = cur.value]]

\* outcomes of the bus calls a tick makes: a profile that is not read and a
\* register write that is not issued have no outcome to choose
BusOutcomes(made) == IF made THEN BOOLEAN ELSE {TRUE}
ReadsDns == \/ cfg.runtime_profile = "dns"
            \/ cfg.runtime_profile = "auto" /\ resolved_profile \in {None, Some("dns")}
ReadsMt == \/ cfg.runtime_profile = "mt"
           \/ cfg.runtime_profile = "auto" /\ resolved_profile \in {None, Some("mt")}
MaxWrites == IF cfg.mode = "active_pct" THEN 2 ELSE 3

\* what one tick can leave behind, over the outcomes of its bus calls
TickResults ==
    {TickBody(dns_ok, mt_ok, cur_ok, n_ok) :
        dns_ok \in BusOutcomes(ReadsDns), mt_ok \in BusOutcomes(ReadsMt),
        cur_ok \in BOOLEAN, n_ok \in 0..MaxWrites}

Tick ==
    /\ pc = "tick"
    /\ \E r \in TickResults :
          /\ resolved_profile' = r.resolved_profile
          /\ last_probe_error' = r.last_probe_error
          /\ last_limit_state' = r.last_limit_state
          /\ last_write_ts' = r.last_write_ts
          /\ regs' = r.regs
          /\ out' = r.out
          /\ pc' = r.pc
    /\ UNCHANGED <<threads, proc, modbus, cfg, now, amber_snap, alpha_snap, alpha_last_error>>

\* time.sleep(SLEEP_SECONDS); the iteration takes up to MaxJitter longer
Sleep ==
    /\ pc = "sleep"
    /\ \E j \in 0..MaxJitter :
          /\ now + SLEEP_SECONDS * TicksPerSec + j <= MaxTime
          /\ now' = now + SLEEP_SECONDS * TicksPerSec + j
    /\ pc' = "tick"
    /\ UNCHANGED <<threads, proc, modbus, cfg, last_limit_state, last_write_ts, amber_snap, alpha_snap,
                   alpha_last_error, resolved_profile, last_probe_error, regs, out>>

Next ==
    \/ AmberPollOk
    \/ AmberPollFail
    \/ AlphaPollOk
    \/ AlphaPollFail
    \/ Tick
    \/ Sleep

Spec == Init /\ [][Next]_vars


\* ----------------------------------------- specification of the limiter

\* percentages a caller may pass to set_limit_pct
PctArgs == {-7, -1, 0, 1, 40, 99, 100, 101, 300}

LimiterConfigs ==
    {c \in [always_enabled : BOOLEAN, mode : {"pct", "active_pct"},
            alpha_enabled : {FALSE}, runtime_profile : {"off"}] : TRUE}

InitLimiter ==
    /\ cfg \in LimiterConfigs
    /\ now = StartTime
    /\ pc = "tick"
    /\ last_limit_state = None
    /\ last_write_ts = 0
    /\ amber_snap = None
    /\ alpha_snap = None
    /\ alpha_last_error = FALSE
    /\ resolved_profile = reader_init(cfg.runtime_profile)
    /\ last_probe_error = None
    /\ regs = RegsInit
    /\ modbus = ModbusInit
    /\ threads = ThreadsInit
    /\ proc = ProcInit
    /\ out = OutNone

\* GoodWePowerLimiter.set_limit_pct(enabled, pct) against the device; the
\* first n_ok register writes succeed, the next one (if any) raises.
SetLimitPct ==
    /\ \E enabled \in BOOLEAN, pct \in PctArgs, n_ok \in 0..MaxWrites :
          LET ws == set_limit_pct(enabled, pct, cfg.mode, cfg.always_enabled)
              n == Min(n_ok, Len(ws))
          IN  /\ regs' = write_u16s(regs, ws, n)
              /\ out' = [OutNone EXCEPT !.phase = "set_limit_pct",
                                        !.want_enabled = IF enabled THEN 1 ELSE 0,
                                        !.want_pct = pct,
                                        !.write_attempted = TRUE,
                                        !.write_ok = (n = Len(ws)),
                                        !.writes = SubSeq(ws, 1, Min(n + 1, Len(ws)))]
    /\ UNCHANGED <<threads, proc, modbus, cfg, now, pc, last_limit_state, last_write_ts, amber_snap,
                   alpha_snap, alpha_last_error, resolved_profile, last_probe_error>>

NextLimiter == SetLimitPct

SpecLimiter == InitLimiter /\ [][NextLimiter]_vars

\* ------------------------------- specification of one tick's decision

\* ages (clock units) of a published snapshot at the time of the tick:
\* fresh, at the maximum, within the same whole second as the maximum,
\* and one second beyond it
PolicyAges(max_stale_sec) ==
    {0, max_stale_sec * TicksPerSec, max_stale_sec * TicksPerSec + 1,
     (max_stale_sec + 1) * TicksPerSec}

PolicyNow == StartTime + (Max(AMBER_MAX_STALE_SEC, ALPHAESS_MAX_STALE_SEC) + 1) * TicksPerSec

PolicyFeeds == {None, Some(-2), Some(-1), Some(0), Some(5)}

PolicyAlphaSamples ==
    {[pload |-> Some(500), pbat |-> Some(0), pgrid |-> Some(0), soc |-> Some(1000)],
     [pload |-> Some(500), pbat |-> Some(300), pgrid |-> Some(-30), soc |-> Some(800)],
     [pload |-> Some(500), pbat |-> Some(300), pgrid |-> Some(-200), soc |-> Some(800)],
     [pload |-> Some(500), pbat |-> Some(-300), pgrid |-> Some(100), soc |-> Some(850)],
     [pload |-> Some(800), pbat |-> Some(2000), pgrid |-> Some(-400), soc |-> Some(995)],
     [pload |-> Some(500), pbat |-> Some(0), pgrid |-> None, soc |-> None],
     [pload |-> Some(6000), pbat |-> Some(0), pgrid |-> Some(300), soc |-> Some(1000)],
     [pload |-> Some(700), pbat |-> Some(400), pgrid |-> Some(-100), soc |-> None],
     [pload |-> None, pbat |-> Some(0), pgrid |-> Some(0), soc |-> Some(1000)],
     [pload |-> None, pbat |-> None, pgrid |-> None, soc |-> None]}

PolicyLimitStates == {None, <<1, 100>>, <<1, 40>>, <<0, 100>>, <<1, 0>>}

PolicyConfigs ==
    {c \in [always_enabled : {TRUE}, mode : {"pct"},
            alpha_enabled : BOOLEAN, runtime_profile : {"off", "dns"}] : TRUE}

\* The loop at the start of a tick, with any published snapshots and any
\* last-written state.
InitPolicy ==
    /\ cfg \in PolicyConfigs
    /\ now = PolicyNow
    /\ pc = "tick"
    /\ last_limit_state \in PolicyLimitStates
    /\ last_write_ts \in IF last_limit_state = None THEN {0}
                         ELSE {now - 1, now - MIN_SECONDS_BETWEEN_WRITES * TicksPerSec}
    /\ amber_snap \in
          {None}
          \cup {Some(AmberSnapshotOk(now - a, f)) :
                   a \in PolicyAges(AMBER_MAX_STALE_SEC), f \in PolicyFeeds}
          \cup {Some(AmberSnapshotErr(now - a)) : a \in PolicyAges(AMBER_MAX_STALE_SEC)}
    /\ alpha_snap \in
          IF cfg.alpha_enabled
          THEN {None} \cup {Some(AlphaEssSnapshot(now - a, raw)) :
                               a \in PolicyAges(ALPHAESS_MAX_STALE_SEC),
                               raw \in PolicyAlphaSamples}
          ELSE {None}
    /\ alpha_last_error = FALSE
    /\ resolved_profile = reader_init(cfg.runtime_profile)
    /\ last_probe_error = None
    /\ regs = RegsInit
    /\ modbus = ModbusInit
    /\ threads = ThreadsInit
    /\ proc = ProcInit
    /\ out = OutNone

NextPolicy == Tick

SpecPolicy == InitPolicy /\ [][NextPolicy]_vars

\* ------------------------------------- specification of the smoothing

\* LIMIT_SMOOTHING as <<numerator, denominator>>: 0, and factors in (0,1)
\* for which the float arithmetic of the loop rounds as the rational does
\* (exact in binary, or with no sum of the two terms at a tie)
SmoothingFactors == {<<0, 1>>, <<1, 5>>, <<1, 4>>, <<1, 2>>, <<3, 5>>, <<3, 4>>}

\* percentages: 0 .. 100
Percentages == 0..100

\* Ticks whose raw percentage stays what it is and whose write succeeds:
\* the previously commanded percentage is the last smoothed one.
InitSmoothing ==
    /\ cfg \in {[always_enabled |-> TRUE, mode |-> "pct", alpha_enabled |-> FALSE,
                  runtime_profile |-> "off", smoothing |-> f] : f \in SmoothingFactors}
    /\ now = StartTime
    /\ pc = "tick"
    /\ last_limit_state \in {<<1, p>> : p \in Percentages}
    /\ last_write_ts = 0
    /\ amber_snap = None
    /\ alpha_snap = None
    /\ alpha_last_error = FALSE
    /\ resolved_profile = reader_init(cfg.runtime_profile)
    /\ last_probe_error = None
    /\ regs = RegsInit
    /\ modbus = ModbusInit
    /\ threads = ThreadsInit
    /\ proc = ProcInit
    /\ out \in {[OutNone EXCEPT !.phase = "smoothing", !.target_pct_raw = r] :
                   r \in Percentages}

\* main(): target_pct from prev_pct and target_pct_raw, then the successful
\* write that makes it the previous percentage of the next tick
SmoothStep ==
    /\ out.phase = "smoothing"
    /\ LET want_pct == smooth(last_limit_state[2], out.target_pct_raw,
                               cfg.smoothing[1], cfg.smoothing[2])
       IN  /\ out' = [out EXCEPT !.want_pct = want_pct, !.want_enabled = 1]
           /\ last_limit_state' = <<1, want_pct>>
    /\ UNCHANGED <<threads, proc, modbus, cfg, now, pc, last_write_ts, amber_snap, alpha_snap,
                   alpha_last_error, resolved_profile, last_probe_error, regs>>

NextSmoothing == SmoothStep

SpecSmoothing == InitSmoothing /\ [][NextSmoothing]_vars

\* -------------------------------- specification of the Modbus transport

ModbusMaxTime == StartTime + ModbusHorizon

InitModbus ==
    /\ cfg \in {c \in Configs : c.runtime_profile = "off"}
    /\ now = StartTime
    /\ pc = "tick"
    /\ last_limit_state = None
    /\ last_write_ts = 0
    /\ amber_snap = None
    /\ alpha_snap = None
    /\ alpha_last_error = FALSE
    /\ resolved_profile = reader_init(cfg.runtime_profile)
    /\ last_probe_error = None
    /\ regs = RegsInit
    /\ modbus = ModbusInit
    /\ threads = ThreadsInit
    /\ proc = ProcInit
    /\ out = OutNone

\* a caller enters _read_holding or _write_register
ModbusCall ==
    /\ modbus.call = "idle"
    /\ \E op \in {"read_holding", "write_register"}, conn_ok \in BOOLEAN :
          modbus' = call_start(modbus, now, op, conn_ok)
    /\ UNCHANGED <<threads, proc, cfg, now, pc, last_limit_state, last_write_ts, amber_snap, alpha_snap,
                   alpha_last_error, resolved_profile, last_probe_error, regs, out>>

\* one attempt of the call in progress
ModbusAttempt ==
    /\ modbus.call = "loop"
    /\ \E reply \in Replies, conn_ok \in BOOLEAN :
          modbus' = call_attempt(modbus, now, reply, conn_ok)
    /\ UNCHANGED <<threads, proc, cfg, now, pc, last_limit_state, last_write_ts, amber_snap, alpha_snap,
                   alpha_last_error, resolved_profile, last_probe_error, regs, out>>

\* time passes: between calls, and in a timeout or the sleep of a retry
ModbusWait ==
    /\ now < ModbusMaxTime
    /\ now' = now + 1
    /\ UNCHANGED <<threads, proc, cfg, pc, last_limit_state, last_write_ts, amber_snap, alpha_snap,
                   alpha_last_error, resolved_profile, last_probe_error, regs, out, modbus>>

NextModbus ==
    \/ ModbusCall
    \/ ModbusAttempt
    \/ ModbusWait

SpecModbus == InitModbus /\ [][NextModbus]_vars

\* ------------------- specification of the threads sharing the snapshots

\* objects the battery poller may allocate
MaxObjects == 2

InitThreads ==
    /\ cfg \in {c \in Configs : c.alpha_enabled}
    /\ now = StartTime
    /\ pc = "tick"
    /\ last_limit_state = None
    /\ last_write_ts = 0
    /\ amber_snap = None
    /\ alpha_snap = None
    /\ alpha_last_error = FALSE
    /\ resolved_profile = reader_init(cfg.runtime_profile)
    /\ last_probe_error = None
    /\ regs = RegsInit
    /\ modbus = ModbusInit
    /\ threads = ThreadsInit
    /\ proc = ProcInit
    /\ out = OutNone

\* a snapshot published while the loop is inside a bus call is noted
noted(th) ==
    [th EXCEPT !.main.published_in_bus_call = (@ \/ th.main.at \in BusCalls)]

\* AmberPoller._run, one statement: the fetch with the construction of the
\* snapshot (of a good reply or of an error), _set_snapshot entering
\* "with self._lock", its body and exit, the sleep until the next poll
AmberThread ==
    /\ \/ /\ threads.amber.at = "fetch"
          /\ \E s \in {AmberSnapshotOk(now, Some(EXPORT_COST_THRESHOLD_C)),
                      AmberSnapshotErr(now)} :
                threads' = [threads EXCEPT !.amber = [at |-> "set_snapshot",
                                                      snap |-> Some(s)]]
       \/ /\ threads.amber.at = "set_snapshot"
          /\ threads.amber_lock = "free"
          /\ threads' = [threads EXCEPT !.amber.at = "set_snapshot_locked",
                                        !.amber_lock = "amber"]
       \/ /\ threads.amber.at = "set_snapshot_locked"
          /\ threads' = noted([threads EXCEPT !.amber.at = "sleep",
                                              !.amber_snapshot = threads.amber.snap,
                                              !.amber_lock = with_lock_exit("amber")])
       \/ /\ threads.amber.at = "sleep"
          /\ threads' = [threads EXCEPT !.amber.at = "fetch"]
    /\ UNCHANGED <<cfg, now, pc, last_limit_state, last_write_ts, amber_snap, alpha_snap,
                   alpha_last_error, resolved_profile, last_probe_error, regs, out,
                   modbus, proc>>

\* AlphaEssOpenApiPoller._run, one statement
AlphaThread ==
    LET a == threads.alpha
        next == alpha_run_next(a.at)
    IN
    /\ \/ /\ a.at = "fetch"
          /\ \/ /\ Len(threads.heap) < MaxObjects
                /\ \E raw \in AlphaSamples :
                      threads' = [threads EXCEPT !.alpha.at = next,
                                                 !.alpha.raw = Some(raw)]
             \/ threads' = [threads EXCEPT !.alpha.at = "set_error"]
       \/ /\ a.at = "construct"
          /\ threads' = [threads EXCEPT
                            !.heap = Append(@, alpha_construct(now, Get(a.raw))),
                            !.alpha.snap = Len(threads.heap) + 1,
                            !.alpha.at = next]
       \/ /\ a.at = "normalise_pbat"
          /\ threads' = [threads EXCEPT !.heap[a.snap] = alpha_normalise_pbat(@),
                                        !.alpha.at = next]
       \/ /\ a.at = "normalise_pgrid"
          /\ threads' = [threads EXCEPT !.heap[a.snap] = alpha_normalise_pgrid(@),
                                        !.alpha.at = next]
       \/ /\ a.at \in {"set_snapshot", "set_error"}
          /\ threads.alpha_lock = "free"
          /\ threads' = [threads EXCEPT !.alpha.at = next, !.alpha_lock = "alpha"]
       \/ /\ a.at = "set_snapshot_locked"
          /\ threads' = noted([threads EXCEPT !.alpha_last_snapshot = a.snap,
                                              !.alpha_last_error = FALSE,
                                              !.alpha_lock = with_lock_exit("alpha"),
                                              !.alpha.at = next])
       \/ /\ a.at = "set_error_locked"
          /\ threads' = [threads EXCEPT !.alpha_last_error = TRUE,
                                        !.alpha_lock = with_lock_exit("alpha"),
                                        !.alpha.at = next]
       \/ /\ a.at = "sleep"
          /\ threads' = [threads EXCEPT !.alpha.at = next]
    /\ UNCHANGED <<cfg, now, pc, last_limit_state, last_write_ts, amber_snap, alpha_snap,
                   alpha_last_error, resolved_profile, last_probe_error, regs, out,
                   modbus, proc>>

\* the loop of main(), one step of a tick: get_snapshot of each poller
\* (entering "with self._lock", then its body and exit), the bus calls in
\* between (each returns or raises into the handler of the tick), the sleep
MainThread ==
    LET m == threads.main
    IN
    /\ \/ /\ m.at = "get_amber"
          /\ threads.amber_lock = "free"
          /\ threads' = [threads EXCEPT !.main.at = "get_amber_locked",
                                        !.amber_lock = "main"]
       \/ /\ m.at = "get_amber_locked"
          /\ threads' = [threads EXCEPT !.main.amber_snap = threads.amber_snapshot,
                                        !.amber_lock = with_lock_exit("main"),
                                        !.main.at = "runtime_read"]
       \/ /\ m.at = "runtime_read"
          /\ \E raised \in BOOLEAN :
                threads' = [threads EXCEPT
                               !.main.at = IF raised THEN "sleep" ELSE "get_alpha"]
       \/ /\ m.at = "get_alpha"
          /\ threads.alpha_lock = "free"
          /\ threads' = [threads EXCEPT !.main.at = "get_alpha_locked",
                                        !.alpha_lock = "main"]
       \/ /\ m.at = "get_alpha_locked"
          /\ threads' = [threads EXCEPT !.main.alpha_snap = threads.alpha_last_snapshot,
                                        !.alpha_lock = with_lock_exit("main"),
                                        !.main.at = "read_current"]
       \/ /\ m.at = "read_current"
          /\ \E raised \in BOOLEAN :
                threads' = [threads EXCEPT
                               !.main.at = IF raised THEN "sleep" ELSE "set_limit_pct"]
       \/ /\ m.at = "set_limit_pct"
          /\ threads' = [threads EXCEPT !.main.at = "sleep"]
       \/ /\ m.at = "sleep"
          /\ threads' = [threads EXCEPT !.main.at = "get_amber",
                                        !.main.published_in_bus_call = FALSE]
    /\ UNCHANGED <<cfg, now, pc, last_limit_state, last_write_ts, amber_snap, alpha_snap,
                   alpha_last_error, resolved_profile, last_probe_error, regs, out,
                   modbus, proc>>

NextThreads ==
    \/ AmberThread
    \/ AlphaThread
    \/ MainThread

SpecThreads == InitThreads /\ [][NextThreads]_vars

\* ------------------------------ specification of main(), start to exit

InitMain ==
    /\ cfg \in Configs
    /\ now = StartTime
    /\ pc = "tick"
    /\ last_limit_state = None
    /\ last_write_ts = 0
    /\ amber_snap = None
    /\ alpha_snap = None
    /\ alpha_last_error = FALSE
    /\ resolved_profile = reader_init(cfg.runtime_profile)
    /\ last_probe_error = None
    /\ regs = RegsInit
    /\ modbus = ModbusInit
    /\ threads = ThreadsInit
    /\ proc = ProcInit
    /\ out = OutNone

\* main() leaves: the interpreter exits and takes the daemon threads along
exited(status, cause) ==
    [proc EXCEPT !.at = "exited", !.status = status, !.cause = cause, !.todo = <<>>]

\* main() starts closing what it opened, to leave with `leave` afterwards
cleanup(p, steps, leave, cause) ==
    [p EXCEPT !.at = "cleanup", !.todo = steps, !.leave = leave, !.cause = cause]

\* main(): the credentials check and the construction of the AmberPoller,
\* which starts its thread
MainStart ==
    /\ proc.at = "start"
    /\ \E credentials \in BOOLEAN :
          proc' = IF ~credentials THEN exited("return_2", "credentials")
                  ELSE [proc EXCEPT !.at = "connect", !.amber.thread = "check"]
    /\ UNCHANGED <<cfg, now, pc, last_limit_state, last_write_ts, amber_snap, alpha_snap,
                   alpha_last_error, resolved_profile, last_probe_error, regs, out,
                   modbus, threads>>

\* main(): modbus.connect() returns True or False (the client closed
\* again), or raises because pymodbus could not be imported
MainConnect ==
    /\ proc.at = "connect"
    /\ \E outcome \in {"ok", "failed", "raised"} :
          proc' = IF outcome = "ok"
                  THEN [proc EXCEPT !.at = "alpha_init", !.bus = "open"]
                  ELSE IF outcome = "failed"
                  THEN cleanup([proc EXCEPT !.bus = "closed"], close_steps("amber"),
                               "return_3", "connect_failed")
                  ELSE exited("raise_RuntimeError", "connect_raised")
    /\ UNCHANGED <<cfg, now, pc, last_limit_state, last_write_ts, amber_snap, alpha_snap,
                   alpha_last_error, resolved_profile, last_probe_error, regs, out,
                   modbus, threads>>

\* main(): the construction of the AlphaEssOpenApiPoller, which starts its
\* thread as its last statement, when ALPHAESS_OPENAPI_ENABLED
MainAlphaInit ==
    /\ proc.at = "alpha_init"
    /\ \E ok \in BusOutcomes(cfg.alpha_enabled) :
          proc' = IF ~cfg.alpha_enabled THEN [proc EXCEPT !.at = "tick"]
                  ELSE IF ok THEN [proc EXCEPT !.at = "tick", !.alpha.thread = "check"]
                  ELSE cleanup(proc, close_steps("amber") \o <<<<"bus", "close">>>>,
                               "return_4", "alpha_init")
    /\ UNCHANGED <<cfg, now, pc, last_limit_state, last_write_ts, amber_snap, alpha_snap,
                   alpha_last_error, resolved_profile, last_probe_error, regs, out,
                   modbus, threads>>

\* main(), the loop: the body of a tick (whatever it raises is caught at
\* its end) and the sleep after it
MainLoop ==
    /\ proc.at \in {"tick", "sleep"}
    /\ proc' = [proc EXCEPT !.at = IF proc.at = "tick" THEN "sleep" ELSE "tick"]
    /\ UNCHANGED <<cfg, now, pc, last_limit_state, last_write_ts, amber_snap, alpha_snap,
                   alpha_last_error, resolved_profile, last_probe_error, regs, out,
                   modbus, threads>>

\* SIGINT: KeyboardInterrupt is raised in main().  Inside the try statement
\* of the loop the finally clause runs and the exception goes on after it;
\* anywhere else, the close calls under "except Exception" included,
\* nothing catches it.
Interrupt ==
    /\ proc.at # "exited"
    /\ proc' = IF proc.at \in {"tick", "sleep"}
               THEN cleanup(proc, finally_steps(proc.alpha.thread # "none"),
                            "raise_KeyboardInterrupt", "interrupt_in_loop")
               ELSE IF proc.at = "cleanup"
               THEN exited("raise_KeyboardInterrupt", "interrupt_in_cleanup")
               ELSE exited("raise_KeyboardInterrupt", "interrupt_outside_loop")
    /\ UNCHANGED <<cfg, now, pc, last_limit_state, last_write_ts, amber_snap, alpha_snap,
                   alpha_last_error, resolved_profile, last_probe_error, regs, out,
                   modbus, threads>>

\* SIGTERM: no handler is installed, the process is killed
Terminate ==
    /\ proc.at # "exited"
    /\ proc' = exited("killed_SIGTERM", "sigterm")
    /\ UNCHANGED <<cfg, now, pc, last_limit_state, last_write_ts, amber_snap, alpha_snap,
                   alpha_last_error, resolved_profile, last_probe_error, regs, out,
                   modbus, threads>>

\* main() making the next of its close calls: close() of a poller sets the
\* stop flag, then joins the thread for at most POLLER_JOIN_TIMEOUT_SEC;
\* modbus.close(); with none left main() leaves
MainCleanup ==
    /\ proc.at = "cleanup"
    /\ \/ /\ proc.todo = <<>>
          /\ proc' = exited(proc.leave, proc.cause)
       \/ /\ proc.todo # <<>>
          /\ LET who == Head(proc.todo)[1]
                 what == Head(proc.todo)[2]
                 rest == Tail(proc.todo)
             IN  \/ /\ what = "close"
                    /\ proc' = [proc EXCEPT !.bus = "closed", !.todo = rest]
                 \/ /\ what = "stop"
                    /\ proc' = [proc EXCEPT ![who] = set_stop(@), !.todo = rest]
                 \/ /\ what = "join"
                    /\ proc[who].join = "none"
                    /\ proc' = [proc EXCEPT
                                   ![who].join = "waiting",
                                   ![who].join_left = POLLER_JOIN_TIMEOUT_SEC * TicksPerSec]
                 \/ /\ what = "join"
                    /\ proc[who].join = "waiting"
                    /\ proc[who].thread = "done" \/ proc[who].join_left = 0
                    /\ proc' = [proc EXCEPT ![who].join = "returned",
                                            ![who].join_left = 0, !.todo = rest]
    /\ UNCHANGED <<cfg, now, pc, last_limit_state, last_write_ts, amber_snap, alpha_snap,
                   alpha_last_error, resolved_profile, last_probe_error, regs, out,
                   modbus, threads>>

\* the thread of the AmberPoller: the head of its loop; the end of a fetch,
\* which sets the time the next poll is due; the end of a sleep
AmberRun ==
    /\ proc.at # "exited"
    /\ \/ /\ proc.amber.thread = "check"
          /\ proc' = [proc EXCEPT !.amber = amber_check(@)]
       \/ /\ proc.amber.thread = "fetch"
          /\ \E due \in 0..(MaxDueSec * TicksPerSec) :
                proc' = [proc EXCEPT !.amber.thread = "check", !.amber.left = due]
       \/ /\ proc.amber.thread = "sleeping"
          /\ proc.amber.timer = 0
          /\ proc' = [proc EXCEPT !.amber.thread = "check"]
    /\ UNCHANGED <<cfg, now, pc, last_limit_state, last_write_ts, amber_snap, alpha_snap,
                   alpha_last_error, resolved_profile, last_probe_error, regs, out,
                   modbus, threads>>

\* the thread of the AlphaEssOpenApiPoller: the head of its loop; the end
\* of a fetch (published or failed); the head of its sleep loop; the end of
\* a sleep
AlphaRun ==
    /\ proc.at # "exited"
    /\ \/ /\ proc.alpha.thread = "check"
          /\ proc' = [proc EXCEPT !.alpha = alpha_check(@)]
       \/ /\ proc.alpha.thread = "fetch"
          /\ proc' = [proc EXCEPT !.alpha.thread = "chunk",
                                  !.alpha.left = Max(1, ALPHAESS_MIN_POLL_INTERVAL_SEC)]
       \/ /\ proc.alpha.thread = "chunk"
          /\ proc' = [proc EXCEPT !.alpha = alpha_chunk(@)]
       \/ /\ proc.alpha.thread = "sleeping"
          /\ proc.alpha.timer = 0
          /\ proc' = [proc EXCEPT !.alpha.thread = "chunk"]
    /\ UNCHANGED <<cfg, now, pc, last_limit_state, last_write_ts, amber_snap, alpha_snap,
                   alpha_last_error, resolved_profile, last_probe_error, regs, out,
                   modbus, threads>>

\* a thread that can take its next statement takes it before the clock moves
ready(p) ==
    \/ p.thread \in {"check", "chunk"}
    \/ p.thread = "sleeping" /\ p.timer = 0
    \/ p.join = "waiting" /\ (p.thread = "done" \/ p.join_left = 0)

\* one clock unit passes: for the sleeping threads, for a fetch in
\* progress (which takes any time), for a join that waits
Elapse ==
    /\ proc.at # "exited"
    /\ ~ready(proc.amber)
    /\ ~ready(proc.alpha)
    /\ proc' = [proc EXCEPT !.amber = elapse(@, TRUE), !.alpha = elapse(@, FALSE)]
    /\ UNCHANGED <<cfg, now, pc, last_limit_state, last_write_ts, amber_snap, alpha_snap,
                   alpha_last_error, resolved_profile, last_probe_error, regs, out,
                   modbus, threads>>

NextMain ==
    \/ MainStart
    \/ MainConnect
    \/ MainAlphaInit
    \/ MainLoop
    \/ Interrupt
    \/ Terminate
    \/ MainCleanup
    \/ AmberRun
    \/ AlphaRun
    \/ Elapse

SpecMain == InitMain /\ [][NextMain]_vars

\* ------------------------- specification of the auto-charge allowance

\* main(): batt_not_full, for a full threshold in tenths of a percent
batt_not_full(soc, full_x10) == ~IsNone(soc) /\ Get(soc) < full_x10

\* auto_charge_add without the comparison of the SOC with the threshold
auto_charge_add_any_soc(soc, measured_charge_w, below_x10) ==
    LET cap == Max(0, Min(ALPHAESS_AUTO_CHARGE_W, ALPHAESS_AUTO_CHARGE_MAX_W))
    IN  IF /\ ~IsNone(soc)
           /\ ALPHAESS_AUTO_CHARGE_W > 0
           /\ below_x10 > 0
           /\ cap > measured_charge_w
        THEN cap - measured_charge_w
        ELSE 0

\* main(), battery-full branch: auto_add_w, for an auto-charge threshold in
\* tenths of a percent
auto_charge_add(soc, measured_charge_w, below_x10) ==
    LET cap == Max(0, Min(ALPHAESS_AUTO_CHARGE_W, ALPHAESS_AUTO_CHARGE_MAX_W))
    IN  IF /\ ~IsNone(soc)
           /\ ALPHAESS_AUTO_CHARGE_W > 0
           /\ below_x10 > 0
           /\ Get(soc) < below_x10
           /\ cap > measured_charge_w
        THEN cap - measured_charge_w
        ELSE 0

\* main(), export costs and the battery snapshot is ok: the branch taken
\* and the allowance added in it
auto_charge_branch(snap, full_x10, below_x10) ==
    IF batt_not_full(snap.soc_pct, full_x10)
    THEN [branch |-> "below_full", auto_add_w |-> 0]
    ELSE [branch |-> "full",
          auto_add_w |-> auto_charge_add(snap.soc_pct, snap.charge_w, below_x10)]

\* ALPHAESS_FULL_SOC_PCT and ALPHAESS_AUTO_CHARGE_BELOW_SOC_PCT as they may
\* be configured (tenths of a percent); the defaults are 99.5 and 90
FullSocSettings == {800, 995, 1000}
AutoChargeBelowSettings == {0, 900, 995, 1000}

\* SOC readings around the thresholds, and none
SocReadings == {None} \cup {Some(s) : s \in {0, 799, 800, 899, 900, 994, 995, 999, 1000}}

\* battery power readings: idle, charging below and above the cap
PbatReadings == {Some(0), Some(1000), Some(2000)}

InitAutoCharge ==
    /\ cfg \in {[always_enabled |-> TRUE, mode |-> "pct", alpha_enabled |-> TRUE,
                  runtime_profile |-> "off", full_soc_x10 |-> f,
                  auto_charge_below_x10 |-> b] :
                   f \in FullSocSettings, b \in AutoChargeBelowSettings}
    /\ now = StartTime
    /\ pc = "tick"
    /\ last_limit_state = None
    /\ last_write_ts = 0
    /\ amber_snap = None
    /\ alpha_snap \in {Some(AlphaEssSnapshot(now, [pload |-> Some(500), pbat |-> p,
                                                   pgrid |-> Some(0), soc |-> s])) :
                          p \in PbatReadings, s \in SocReadings}
    /\ alpha_last_error = FALSE
    /\ resolved_profile = reader_init(cfg.runtime_profile)
    /\ last_probe_error = None
    /\ regs = RegsInit
    /\ modbus = ModbusInit
    /\ threads = ThreadsInit
    /\ proc = ProcInit
    /\ out = OutNone

\* main(): the branch and the allowance of a tick on which export costs
\* money and the battery snapshot is ok
AutoChargeTick ==
    /\ pc = "tick"
    /\ LET r == auto_charge_branch(Get(alpha_snap), cfg.full_soc_x10,
                                   cfg.auto_charge_below_x10)
       IN  out' = [OutNone EXCEPT !.phase = "auto_charge", !.export_costs = TRUE,
                                  !.alpha_ok = TRUE, !.reason = r.branch,
                                  !.auto_add_w = r.auto_add_w]
    /\ pc' = "sleep"
    /\ UNCHANGED <<threads, proc, modbus, cfg, now, last_limit_state, last_write_ts, amber_snap,
                   alpha_snap, alpha_last_error, resolved_profile, last_probe_error, regs>>

NextAutoCharge == AutoChargeTick

SpecAutoCharge == InitAutoCharge /\ [][NextAutoCharge]_vars

\* ------------------------------ specification of the battery poller

\* envelope codes _unwrap accepts (besides an absent code)
OkCodes == {0, 200}

\* what _ci_get finds in a dict that has none of the reading keys
NoReadings == [pload |-> None, pbat |-> None, pgrid |-> None, soc |-> None]

\* AlphaEssOpenApiClient._unwrap of a JSON envelope: code (None: absent),
\* has_data ("data" in resp), data (Some(readings): a dict; None: null).
\* Without a "data" key the envelope itself is returned, a dict with none
\* of the reading keys.
unwrap(resp) ==
    IF resp.has_data
    THEN IF ~IsNone(resp.code) /\ Get(resp.code) \notin OkCodes
         THEN [raised |-> TRUE, value |-> None]
         ELSE [raised |-> FALSE, value |-> resp.data]
    ELSE [raised |-> FALSE, value |-> Some(NoReadings)]

\* AlphaEssOpenApiClient.get_last_power_data: the dict _run reads from;
\* requests.get or raise_for_status raising is http_ok = FALSE
get_last_power_data(resp) ==
    IF ~resp.http_ok THEN [raised |-> TRUE, value |-> NoReadings]
    ELSE LET data == unwrap(resp)
         IN  IF data.raised THEN [raised |-> TRUE, value |-> NoReadings]
             ELSE IF IsNone(data.value) THEN [raised |-> FALSE, value |-> NoReadings]
             ELSE [raised |-> FALSE, value |-> Get(data.value)]

\* alpha_snapshot normalising the grid power by the battery's flag
alpha_snapshot_one_flag(ts, raw, pbat_positive_is_charge, pgrid_positive_is_import) ==
    LET s == alpha_construct(ts, raw)
        p == IF IsNone(raw.pbat) THEN None
             ELSE Some(IF pbat_positive_is_charge THEN Get(raw.pbat) ELSE -Get(raw.pbat))
        g == IF IsNone(raw.pgrid) THEN None
             ELSE Some(IF pbat_positive_is_charge THEN Get(raw.pgrid) ELSE -Get(raw.pgrid))
        state == IF IsNone(p) THEN "unknown"
                 ELSE IF Abs(Get(p)) < ALPHAESS_PBAT_IDLE_THRESHOLD_W THEN "idle"
                 ELSE IF Get(p) > 0 THEN "charging" ELSE "discharging"
    IN  [s EXCEPT !.pbat_w = p, !.pgrid_w = g, !.batt_state = state,
                  !.charge_w = IF state = "charging" THEN Abs(Get(p)) ELSE 0,
                  !.discharge_w = IF state = "discharging" THEN Abs(Get(p)) ELSE 0,
                  !.grid_import_w = IF ~IsNone(g) /\ Get(g) > 0 THEN Get(g) ELSE 0,
                  !.grid_export_w = IF ~IsNone(g) /\ Get(g) < 0 THEN Abs(Get(g)) ELSE 0]

\* AlphaEssOpenApiPoller._run: the snapshot built from the readings, for
\* given ALPHAESS_PBAT_POSITIVE_IS_CHARGE and ALPHAESS_PGRID_POSITIVE_IS_IMPORT
alpha_snapshot(ts, raw, pbat_positive_is_charge, pgrid_positive_is_import) ==
    LET s == alpha_construct(ts, raw)
        p == IF IsNone(raw.pbat) THEN None
             ELSE Some(IF pbat_positive_is_charge THEN Get(raw.pbat) ELSE -Get(raw.pbat))
        g == IF IsNone(raw.pgrid) THEN None
             ELSE Some(IF pgrid_positive_is_import THEN Get(raw.pgrid) ELSE -Get(raw.pgrid))
        state == IF IsNone(p) THEN s.batt_state
                 ELSE IF Abs(Get(p)) < ALPHAESS_PBAT_IDLE_THRESHOLD_W THEN "idle"
                 ELSE IF Get(p) > 0 THEN "charging" ELSE "discharging"
    IN  [s EXCEPT !.pbat_w = p, !.pgrid_w = g, !.batt_state = state,
                  !.charge_w = IF state = "charging" THEN Abs(Get(p)) ELSE s.charge_w,
                  !.discharge_w = IF state = "discharging" THEN Abs(Get(p))
                                  ELSE s.discharge_w,
                  !.grid_import_w = IF ~IsNone(g) /\ Get(g) > 0 THEN Get(g)
                                    ELSE s.grid_import_w,
                  !.grid_export_w = IF ~IsNone(g) /\ Get(g) < 0 THEN Abs(Get(g))
                                    ELSE s.grid_export_w]

\* AlphaEssOpenApiPoller._run, one pass of the try block: the poller's
\* fields after it
alpha_poll(resp, ts, last_snapshot, pbat_positive_is_charge, pgrid_positive_is_import) ==
    LET raw == get_last_power_data(resp)
    IN  IF raw.raised THEN set_error(last_snapshot)
        ELSE set_snapshot(alpha_snapshot(ts, raw.value, pbat_positive_is_charge,
                                         pgrid_positive_is_import))

\* readings a reply may carry: battery power absent, zero, on both sides
\* of the idle threshold and beyond it; grid power absent, zero, import
\* and export
BatteryReadings ==
    {[pload |-> Some(500), pbat |-> b, pgrid |-> g, soc |-> Some(800)] :
        b \in {None, Some(0), Some(ALPHAESS_PBAT_IDLE_THRESHOLD_W - 1),
               Some(-ALPHAESS_PBAT_IDLE_THRESHOLD_W), Some(300)},
        g \in {None, Some(0), Some(100), Some(-200)}}

\* replies of the battery API: the request raised; an envelope with an ok
\* or an error code and a data dict; with data null; with no data key
BatteryReplies ==
    {[http_ok |-> FALSE, code |-> None, has_data |-> FALSE, data |-> None]}
    \cup {[http_ok |-> TRUE, code |-> Some(c), has_data |-> TRUE, data |-> Some(r)] :
             c \in {200, 6001}, r \in BatteryReadings}
    \cup {[http_ok |-> TRUE, code |-> c, has_data |-> d, data |-> None] :
             c \in {None, Some(200), Some(6001)}, d \in BOOLEAN}

BatteryPollInterval == Max(1, ALPHAESS_MIN_POLL_INTERVAL_SEC) * TicksPerSec
BatteryMaxTime == StartTime + (MaxBatteryPolls - 1) * BatteryPollInterval

InitBatteryPoll ==
    /\ cfg \in {[always_enabled |-> TRUE, mode |-> "pct", alpha_enabled |-> TRUE,
                  runtime_profile |-> "off", pbat_positive_is_charge |-> b,
                  pgrid_positive_is_import |-> g] : b \in BOOLEAN, g \in BOOLEAN}
    /\ now = StartTime
    /\ pc = "poll"
    /\ last_limit_state = None
    /\ last_write_ts = 0
    /\ amber_snap = None
    /\ alpha_snap = None
    /\ alpha_last_error = FALSE
    /\ resolved_profile = reader_init(cfg.runtime_profile)
    /\ last_probe_error = None
    /\ regs = RegsInit
    /\ modbus = ModbusInit
    /\ threads = ThreadsInit
    /\ proc = ProcInit
    /\ out = OutNone

\* AlphaEssOpenApiPoller._run: the try block, with the reply it got; out
\* keeps the envelope of the reply
BatteryPoll ==
    /\ pc = "poll"
    /\ \E resp \in BatteryReplies :
          LET p == alpha_poll(resp, now, alpha_snap, cfg.pbat_positive_is_charge,
                              cfg.pgrid_positive_is_import)
          IN  /\ alpha_snap' = p.last_snapshot
              /\ alpha_last_error' = p.last_error
              /\ out' = [reply |-> [http_ok |-> resp.http_ok, code |-> resp.code,
                                    has_data |-> resp.has_data]]
                        @@ [OutNone EXCEPT !.phase = "battery_poll"]
    /\ pc' = "wait"
    /\ UNCHANGED <<threads, proc, modbus, cfg, now, last_limit_state, last_write_ts, amber_snap,
                   resolved_profile, last_probe_error, regs>>

\* AlphaEssOpenApiPoller._run: the sleep of interval seconds
BatteryWait ==
    /\ pc = "wait"
    /\ now + BatteryPollInterval <= BatteryMaxTime
    /\ now' = now + BatteryPollInterval
    /\ pc' = "poll"
    /\ UNCHANGED <<threads, proc, modbus, cfg, last_limit_state, last_write_ts, amber_snap,
                   alpha_snap, alpha_last_error, resolved_profile, last_probe_error, regs, out>>

NextBatteryPoll ==
    \/ BatteryPoll
    \/ BatteryWait

SpecBatteryPoll == InitBatteryPoll /\ [][NextBatteryPoll]_vars

\* -------------------------------- specification of the price poller

\* amber_poll retrying at once after a failed poll, and after a reply
\* without an interval end
amber_poll_no_delay(reply, fetch_usage, ts) ==
    IF reply.prices = "raise" \/ (fetch_usage /\ reply.usage = "failed")
    THEN [snap |-> AmberSnapshotErr(ts), next_due_ts |-> ts]
    ELSE [snap |-> AmberSnapshotOk(ts, reply.feed_c),
          next_due_ts |-> IF ~IsNone(reply.end)
                          THEN Get(reply.end) + AMBER_POLL_SLACK_SEC * TicksPerSec
                          ELSE ts]

\* AmberPoller._run, one pass of the loop that fetches: the snapshot it
\* publishes at time ts and _next_due_ts.  reply.prices: "ok" or "raise"
\* (get_current_prices raised); reply.end: the newest interval end of the
\* reply or None; reply.usage: "ok", "fallback_ok" (the first get_usage
\* raised, the one at 30 minutes returned), "failed" (both raised).  The
\* second get_usage is called in the except clause of the first, inside the
\* outer try: when it raises, the outer except clause takes over.
amber_poll(reply, fetch_usage, ts) ==
    IF reply.prices = "raise" \/ (fetch_usage /\ reply.usage = "failed")
    THEN [snap |-> AmberSnapshotErr(ts),
          next_due_ts |-> ts + AMBER_RETRY_BACKOFF_SEC * TicksPerSec]
    ELSE [snap |-> AmberSnapshotOk(ts, reply.feed_c),
          next_due_ts |-> IF ~IsNone(reply.end)
                          THEN Get(reply.end) + AMBER_POLL_SLACK_SEC * TicksPerSec
                          ELSE ts + AMBER_RESOLUTION_MIN * 60 * TicksPerSec]

\* AmberPoller._run, "if due and now < due": the poll is not due yet
amber_not_due(due, t) == due # 0 /\ t < due

\* seconds from the fetch to the interval end a reply carries: an interval
\* that has ended, and two that have not
EndOffsetsSec == {-1, 1, 3}

\* outcomes of the usage fetch of a poll
UsageOutcomes(fetch_usage) ==
    IF fetch_usage THEN {"ok", "fallback_ok", "failed"} ELSE {"off"}

\* replies of the price API to a fetch made at time t
PriceReplies(t, fetch_usage) ==
    {[prices |-> "raise", feed_c |-> None, end |-> None, usage |-> "off"]}
    \cup {[prices |-> "ok", feed_c |-> f, end |-> en, usage |-> u] :
             f \in FeedSamples,
             en \in {None} \cup {Some(t + o * TicksPerSec) : o \in EndOffsetsSec},
             u \in UsageOutcomes(fetch_usage)}

PriceMaxTime == StartTime + PriceHorizonSec * TicksPerSec

\* AmberPoller after __init__: the thread is at the head of its loop
PricePollerInit == [next_due_ts |-> 0] @@ [PollerInit EXCEPT !.thread = "check"]

InitPricePoll ==
    /\ cfg \in {[always_enabled |-> TRUE, mode |-> "pct", alpha_enabled |-> FALSE,
                  runtime_profile |-> "off", fetch_usage |-> u] : u \in BOOLEAN}
    /\ now = StartTime
    /\ pc = "sleep"
    /\ last_limit_state = None
    /\ last_write_ts = 0
    /\ amber_snap = None
    /\ alpha_snap = None
    /\ alpha_last_error = FALSE
    /\ resolved_profile = reader_init(cfg.runtime_profile)
    /\ last_probe_error = None
    /\ regs = RegsInit
    /\ modbus = ModbusInit
    /\ threads = ThreadsInit
    /\ proc = [ProcInit EXCEPT !.at = "sleep", !.amber = PricePollerInit]
    /\ out = OutNone

\* AmberPoller._run: a pass of the loop that fetches; the fetch takes d
\* clock units.  out keeps the reply, the time the fetch was issued and
\* the snapshot published before.
PriceFetch ==
    /\ ~amber_not_due(proc.amber.next_due_ts, now)
    /\ \E d \in 0..MaxFetchTicks :
          /\ now + d <= PriceMaxTime
          /\ \E reply \in PriceReplies(now, cfg.fetch_usage) :
                LET r == amber_poll(reply, cfg.fetch_usage, now + d)
                IN  /\ amber_snap' = Some(r.snap)
                    /\ proc' = [proc EXCEPT !.amber.next_due_ts = r.next_due_ts]
                    /\ out' = [reply |-> reply, fetch_ts |-> now, prev |-> amber_snap]
                              @@ [OutNone EXCEPT !.phase = "price_poll"]
          /\ now' = now + d
    /\ UNCHANGED <<threads, modbus, cfg, pc, last_limit_state, last_write_ts, alpha_snap,
                   alpha_last_error, resolved_profile, last_probe_error, regs>>

\* AmberPoller._run: a pass of the loop that sleeps, at most a second
PriceSleep ==
    /\ amber_not_due(proc.amber.next_due_ts, now)
    /\ LET t == now + sleep_len(proc.amber.next_due_ts - now)
       IN  /\ t <= PriceMaxTime
           /\ now' = t
    /\ UNCHANGED <<threads, proc, modbus, cfg, pc, last_limit_state, last_write_ts, amber_snap,
                   alpha_snap, alpha_last_error, resolved_profile, last_probe_error, regs, out>>

NextPricePoll ==
    \/ PriceFetch
    \/ PriceSleep

SpecPricePoll == InitPricePoll /\ [][NextPricePoll]_vars

\* ------------------------------------------- the loop under fairness

\* The main thread runs the tick body and time.sleep in sequence; bus calls
\* have a timeout and a bounded number of retries, so each of them ends, and
\* time.sleep returns.  The threads of the pollers are scheduled
\* independently of it and get no fairness.

\* WF_vars(Tick), written out: a tick is enabled exactly when the loop is at
\* the start of its body, and every tick leaves that position, so
\* ENABLED <<Tick>>_vars is pc = "tick".
TickFairness == []<>(pc # "tick") \/ []<><<Tick>>_vars

LiveSpec == Spec /\ TickFairness /\ WF_vars(Sleep)

\* ------------------------------------------------------------- claims

\* C1: a tick attempts a limiter write only if (tick time - time of the
\* last successful write) >= MIN_SECONDS_BETWEEN_WRITES, a successful write
\* records the tick's time as the new last-write time and nothing else
\* moves it; so successful writes are at least the interval apart.
C1_WritesRateLimited ==
    [][(pc = "tick" /\ pc' = "sleep") =>
          /\ out'.write_attempted =>
                (now - last_write_ts) >= MIN_SECONDS_BETWEEN_WRITES * TicksPerSec
          /\ out'.write_ok => last_write_ts' = now
          /\ ~out'.write_ok => last_write_ts' = last_write_ts]_vars

\* C1 witness: a tick that needed a write but came too soon after the last
\* successful one and attempted nothing.
C1_RateLimitedTick ==
    /\ out.phase = "done"
    /\ out.need_write
    /\ ~out.can_write
    /\ ~out.write_attempted
    /\ last_limit_state # None

\* C2: once a write has succeeded, a tick that computes the same
\* (enabled, pct) attempts no write, and a write is attempted only if the
\* enabled flag differs or |pct - last written pct| >= MIN_PCT_STEP.
C2_WriteSuppressedWhenUnchanged ==
    [][(pc = "tick" /\ pc' = "sleep" /\ last_limit_state # None) =>
          /\ (out'.want_enabled = last_limit_state[1]
                /\ out'.want_pct = last_limit_state[2]) => ~out'.write_attempted
          /\ out'.write_attempted =>
                \/ last_limit_state[1] # out'.want_enabled
                \/ Abs(last_limit_state[2] - out'.want_pct) >= MIN_PCT_STEP]_vars

\* C2 witness: the write interval has elapsed, the tick computed exactly the
\* last written state, and no write was attempted.
C2_SuppressedAfterInterval ==
    /\ out.phase = "done"
    /\ out.can_write
    /\ ~out.write_attempted
    /\ last_limit_state = <<out.want_enabled, out.want_pct>>

\* C3: if set_limit_pct raises, last_limit_state and last_write_ts are both
\* unchanged, and every tick that reaches write gating with the interval
\* elapsed and a write needed attempts the write (a failure does not
\* consume the rate limit).
C3_FailedWriteKeepsState ==
    [][(pc = "tick" /\ pc' = "sleep") =>
          /\ (out'.write_attempted /\ ~out'.write_ok) =>
                (last_limit_state' = last_limit_state /\ last_write_ts' = last_write_ts)
          /\ ( /\ out'.phase = "done"
               /\ (now - last_write_ts) >= MIN_SECONDS_BETWEEN_WRITES * TicksPerSec
               /\ \/ last_limit_state = None
                  \/ last_limit_state[1] # out'.want_enabled
                  \/ Abs(last_limit_state[2] - out'.want_pct) >= MIN_PCT_STEP )
                => out'.write_attempted]_vars

\* C3 witness: a write failed in a tick later than the first one while no
\* write has succeeded yet, leaving last_limit_state and last_write_ts as
\* they were at start-up.
C3_RetryAfterFailure ==
    /\ out.write_attempted
    /\ ~out.write_ok
    /\ last_limit_state = None
    /\ last_write_ts = 0
    /\ now > StartTime

\* C4: whatever (enabled, pct) set_limit_pct is called with, every
\* percentage it writes is within [0,100] (the tenths mirror within
\* [0,1000]) and the enable register is written as 1 whenever
\* always_enabled is configured.
C4_WrittenValuesInRange ==
    /\ \A i \in 1..Len(out.writes) :
          LET reg == out.writes[i][1]
              val == out.writes[i][2]
          IN  /\ reg \in {GOODWE_EXPORT_PCT_REG, GOODWE_ACTIVE_PCT_REG} => val \in 0..100
              /\ reg = GOODWE_EXPORT_PCT10_REG => val \in 0..1000
              /\ (reg = GOODWE_EXPORT_SWITCH_REG /\ cfg.always_enabled) => val = 1
    /\ regs[GOODWE_EXPORT_PCT_REG] \in 0..100
    /\ regs[GOODWE_ACTIVE_PCT_REG] \in 0..100

\* C4 witness: a call with pct above 100 and enabled = False under
\* always_enabled that wrote all its registers.
C4_OutOfRangeRequestWritten ==
    /\ out.phase = "set_limit_pct"
    /\ out.want_pct > 100
    /\ out.want_enabled = 0
    /\ cfg.always_enabled
    /\ out.write_ok
    /\ regs[GOODWE_EXPORT_SWITCH_REG] = 1

\* C5: a bus read failure inside read_current does not raise out of it and
\* does not abort the tick: no tick ends at the limiter read-back.
C5_ReadbackFailureDoesNotAbortTick ==
    out.phase # "read_current_raised"

\* C6: GoodWeRuntimeReader.read never propagates an exception: no tick
\* ends at the runtime read.
C6_RuntimeReadNeverPropagates ==
    out.phase # "runtime_raised"

\* C7: whatever a tick raises is caught at the tick boundary, the loop
\* sleeps and starts the next tick: every tick ends in the sleep, and every
\* sleep (with room for it before the model's horizon) ends in the start of
\* the next tick.
C7_NextTickAlwaysStarts ==
    /\ (pc = "tick") ~> (pc = "sleep")
    /\ (pc = "sleep" /\ now + SLEEP_SECONDS * TicksPerSec <= MaxTime) ~> (pc = "tick")

\* C7 witness: a new tick is about to start although the previous one was
\* ended by an exception.
C7_TickAfterFailedTick ==
    /\ pc = "tick"
    /\ out.phase \in {"runtime_raised", "read_current_raised"}

\* C8 as stated: when the price snapshot is absent, older than
\* AMBER_MAX_STALE_SEC, or without a feed-in price, the tick sets
\* export_costs; export_costs is false only when the price source is ok and
\* feed-in price >= threshold.  The age is the elapsed time itself.
C8_ConservativeBeyondMaxAge ==
    pc = "sleep" =>
        LET price_ok ==
                /\ amber_snap # None
                /\ (now - Get(amber_snap).ts) <= AMBER_MAX_STALE_SEC * TicksPerSec
                /\ Get(amber_snap).feedin_c # None
        IN  /\ ~price_ok => out.export_costs
            /\ ~out.export_costs =>
                  (price_ok /\ Get(Get(amber_snap).feedin_c) >= EXPORT_COST_THRESHOLD_C)

\* C8 with the age in whole seconds: when the price snapshot is absent, older in whole seconds
\* (the age truncated, as the loop computes it) than AMBER_MAX_STALE_SEC, or
\* without a feed-in price, the tick sets export_costs; export_costs is
\* false only when the price source is ok in that sense and feed-in
\* price >= threshold.
C8_ConservativeWhenPriceNotOk ==
    pc = "sleep" =>
        LET price_ok ==
                /\ amber_snap # None
                /\ (now - Get(amber_snap).ts) \div TicksPerSec <= AMBER_MAX_STALE_SEC
                /\ Get(amber_snap).feedin_c # None
        IN  /\ ~price_ok => out.export_costs
            /\ ~out.export_costs =>
                  (price_ok /\ Get(Get(amber_snap).feedin_c) >= EXPORT_COST_THRESHOLD_C)

\* C8 witness: a snapshot beyond the maximum age whose last known feed-in
\* price is above the threshold, and the tick still assumes export costs.
C8_StaleGoodPrice ==
    /\ pc = "sleep"
    /\ amber_snap # None
    /\ Get(amber_snap).feedin_c = Some(5)
    /\ (now - Get(amber_snap).ts) \div TicksPerSec > AMBER_MAX_STALE_SEC
    /\ out.export_costs

\* C9: whenever the price source is ok and feed-in price >= threshold, a
\* tick that computes a target computes the rated watts with reason
\* "export_allowed", whatever the battery telemetry is.
C9_ExportAllowedAtRated ==
    ( /\ pc = "sleep"
      /\ out.phase # "runtime_raised"
      /\ amber_snap # None
      /\ (now - Get(amber_snap).ts) \div TicksPerSec <= AMBER_MAX_STALE_SEC
      /\ Get(amber_snap).feedin_c # None
      /\ Get(Get(amber_snap).feedin_c) >= EXPORT_COST_THRESHOLD_C )
    => (out.target_w = GOODWE_RATED_W /\ out.reason = "export_allowed")

\* C9 witness: export allowed at the rated watts while the battery snapshot
\* is published but not ok.
C9_ExportAllowedBatteryStale ==
    /\ pc = "sleep"
    /\ out.reason = "export_allowed"
    /\ out.target_w = GOODWE_RATED_W
    /\ alpha_snap # None
    /\ ~out.alpha_ok

\* C10 as stated: whenever the tick takes export as costing money and the
\* battery snapshot is not ok (poller disabled, no snapshot, age beyond
\* ALPHAESS_MAX_STALE_SEC, or no load reading), a tick that computes a
\* target computes 0 W with reason alpha_stale or alpha_disabled.  The age
\* is the elapsed time itself.
C10_ZeroTargetBeyondMaxAge ==
    LET battery_ok ==
            /\ cfg.alpha_enabled
            /\ alpha_snap # None
            /\ (now - Get(alpha_snap).ts) <= ALPHAESS_MAX_STALE_SEC * TicksPerSec
            /\ Get(alpha_snap).pload_w # None
    IN  ( /\ pc = "sleep"
          /\ out.phase # "runtime_raised"
          /\ out.export_costs
          /\ ~battery_ok )
        => ( /\ out.target_w = 0
             /\ out.reason = IF cfg.alpha_enabled THEN "alpha_stale" ELSE "alpha_disabled" )

\* C10 with the age in whole seconds: whenever export costs money and the battery snapshot is
\* not ok (poller disabled, no snapshot, age in whole seconds, truncated as
\* the loop computes it, beyond ALPHAESS_MAX_STALE_SEC, or no load reading),
\* a tick that computes a target computes 0 W with reason alpha_stale or
\* alpha_disabled.
C10_ZeroTargetWhenBatteryNotOk ==
    LET price_ok ==
            /\ amber_snap # None
            /\ (now - Get(amber_snap).ts) \div TicksPerSec <= AMBER_MAX_STALE_SEC
            /\ Get(amber_snap).feedin_c # None
        costs == ~price_ok \/ Get(Get(amber_snap).feedin_c) < EXPORT_COST_THRESHOLD_C
        battery_ok ==
            /\ cfg.alpha_enabled
            /\ alpha_snap # None
            /\ (now - Get(alpha_snap).ts) \div TicksPerSec <= ALPHAESS_MAX_STALE_SEC
            /\ Get(alpha_snap).pload_w # None
    IN  (pc = "sleep" /\ out.phase # "runtime_raised" /\ costs /\ ~battery_ok)
        => ( /\ out.target_w = 0
             /\ out.reason = IF cfg.alpha_enabled THEN "alpha_stale" ELSE "alpha_disabled" )

\* C10 witness: feed-in price below the threshold, a battery snapshot with a
\* load reading but older than the maximum, and a 0 W target.
C10_StaleBatteryZeroTarget ==
    /\ pc = "sleep"
    /\ amber_snap # None
    /\ Get(amber_snap).feedin_c = Some(-2)
    /\ out.amber_state = "ok"
    /\ alpha_snap # None
    /\ Get(alpha_snap).pload_w # None
    /\ (now - Get(alpha_snap).ts) \div TicksPerSec > ALPHAESS_MAX_STALE_SEC
    /\ out.target_w = 0
    /\ out.reason = "alpha_stale"

\* C11: for the price and for the battery snapshot, a snapshot whose age
\* equals the configured maximum is ok when its required field is present,
\* and a snapshot whose age is one second beyond the maximum is not ok;
\* AmberPoller.is_ok draws the same line.
C11_StalenessBoundary ==
    pc = "sleep" =>
        /\ (amber_snap # None /\ Get(amber_snap).feedin_c # None) =>
              /\ (now - Get(amber_snap).ts = AMBER_MAX_STALE_SEC * TicksPerSec)
                    => (out.amber_state = "ok" /\ is_ok(amber_snap, now))
              /\ (now - Get(amber_snap).ts = (AMBER_MAX_STALE_SEC + 1) * TicksPerSec)
                    => (out.amber_state = "stale" /\ ~is_ok(amber_snap, now))
        /\ ( /\ out.phase # "runtime_raised"
             /\ cfg.alpha_enabled
             /\ alpha_snap # None
             /\ Get(alpha_snap).pload_w # None ) =>
              /\ (now - Get(alpha_snap).ts = ALPHAESS_MAX_STALE_SEC * TicksPerSec)
                    => out.alpha_ok
              /\ (now - Get(alpha_snap).ts = (ALPHAESS_MAX_STALE_SEC + 1) * TicksPerSec)
                    => ~out.alpha_ok

\* C11 witness: a tick with a price snapshot exactly at the maximum age taken
\* as ok and a battery snapshot one second beyond it taken as not ok.
C11_PriceAtMaxBatteryBeyond ==
    /\ pc = "sleep"
    /\ out.phase = "done"
    /\ amber_snap # None
    /\ now - Get(amber_snap).ts = AMBER_MAX_STALE_SEC * TicksPerSec
    /\ out.amber_state = "ok"
    /\ alpha_snap # None
    /\ Get(alpha_snap).pload_w # None
    /\ now - Get(alpha_snap).ts = (ALPHAESS_MAX_STALE_SEC + 1) * TicksPerSec
    /\ ~out.alpha_ok

\* C12: when export costs money, the battery snapshot is ok with SOC below
\* the full threshold and measured grid export <= the allowance, the raw
\* target is the rated watts, whatever the import power and the previous
\* percentage are.
C12_ExportWithinAllowanceAtRated ==
    ( /\ pc = "sleep"
      /\ out.phase # "runtime_raised"
      /\ out.export_costs
      /\ out.alpha_ok
      /\ Get(alpha_snap).soc_pct # None
      /\ Get(Get(alpha_snap).soc_pct) < ALPHAESS_FULL_SOC_PCT_X10
      /\ Get(alpha_snap).grid_export_w <= ALPHAESS_EXPORT_ALLOW_W_BELOW_FULL_SOC )
    => out.target_w = GOODWE_RATED_W

\* C12 witness: SOC 80 %, 30 W of export under the 50 W allowance, a previous
\* percentage of 40, and a raw target of the rated watts.
C12_SmallExportPrev40 ==
    /\ pc = "sleep"
    /\ out.export_costs
    /\ out.alpha_ok
    /\ Get(alpha_snap).soc_pct = Some(800)
    /\ Get(alpha_snap).grid_export_w = 30
    /\ out.target_w = GOODWE_RATED_W
    /\ out.target_pct_raw = 100
    /\ out.want_pct < 100

\* C13: when export costs money, the battery is ok with SOC below full and
\* grid export exceeds the allowance, the raw target is
\* clamp(prev_target - gain * (export - allowance) + gain * import, 0, rated),
\* prev_target being the rated watts scaled by the previously commanded
\* percentage (100 if none); allowance 50, export 200, previous percentage
\* 100 and gain 1 give rated - 150.
C13_ExportOverAllowanceThrottled ==
    [][( /\ pc = "tick"
         /\ pc' = "sleep"
         /\ out'.phase # "runtime_raised"
         /\ out'.export_costs
         /\ out'.alpha_ok
         /\ Get(alpha_snap).soc_pct # None
         /\ Get(Get(alpha_snap).soc_pct) < ALPHAESS_FULL_SOC_PCT_X10
         /\ Get(alpha_snap).grid_export_w > ALPHAESS_EXPORT_ALLOW_W_BELOW_FULL_SOC )
        => LET prev_pct == IF last_limit_state = None THEN 100 ELSE last_limit_state[2]
               export_w == Get(alpha_snap).grid_export_w
               import_w == Get(alpha_snap).grid_import_w
               over_w == export_w - ALPHAESS_EXPORT_ALLOW_W_BELOW_FULL_SOC
               g == ALPHAESS_GRID_FEEDBACK_GAIN_NUM
               d == ALPHAESS_GRID_FEEDBACK_GAIN_DEN
               prev_target_w == RoundHalfEven(prev_pct * GOODWE_RATED_W, 100)
               f == prev_target_w * d - g * over_w + g * import_w
           IN  /\ out'.target_w = RoundHalfEven(Max(0, Min(GOODWE_RATED_W * d, f)), d)
               /\ (export_w = 200 /\ prev_pct = 100 /\ import_w = 0 /\ g = d
                    /\ ALPHAESS_EXPORT_ALLOW_W_BELOW_FULL_SOC = 50)
                     => out'.target_w = GOODWE_RATED_W - 150]_vars

\* C13 witness: export of 200 W over the allowance after a commanded 40 %:
\* the raw target is 40 % of the rated watts less 150 W.
C13_ThrottledFromPrev40 ==
    /\ pc = "sleep"
    /\ out.export_costs
    /\ out.alpha_ok
    /\ Get(alpha_snap).soc_pct = Some(800)
    /\ Get(alpha_snap).grid_export_w = 200
    /\ out.target_w = (40 * GOODWE_RATED_W) \div 100 - 150

\* C14 as stated: in the battery-full branch the raw target is
\* clamp(load + desired charge + gain * import - gain * export - bias, 0, rated).
C14_FullBranchAlwaysBiased ==
    ( /\ pc = "sleep"
      /\ out.phase # "runtime_raised"
      /\ out.export_costs
      /\ out.alpha_ok
      /\ \/ Get(alpha_snap).soc_pct = None
         \/ Get(Get(alpha_snap).soc_pct) >= ALPHAESS_FULL_SOC_PCT_X10 )
    => LET snap == Get(alpha_snap)
           cap == Max(0, Min(ALPHAESS_AUTO_CHARGE_W, ALPHAESS_AUTO_CHARGE_MAX_W))
           low == /\ snap.soc_pct # None
                  /\ Get(snap.soc_pct) < ALPHAESS_AUTO_CHARGE_BELOW_SOC_PCT_X10
           desired == IF low THEN Max(snap.charge_w, cap) ELSE snap.charge_w
           g == ALPHAESS_GRID_FEEDBACK_GAIN_NUM
           d == ALPHAESS_GRID_FEEDBACK_GAIN_DEN
           f == (Get(snap.pload_w) + desired) * d + g * snap.grid_import_w
                - g * snap.grid_export_w - ALPHAESS_GRID_IMPORT_BIAS_W * d
       IN  out.target_w = RoundHalfEven(Max(0, Min(GOODWE_RATED_W * d, f)), d)

\* C14, amended: in the battery-full branch, when the battery snapshot
\* carries a grid power reading the raw target is
\* clamp(load + desired charge + gain * import - gain * export - bias, 0, rated),
\* and without a grid power reading it is clamp(load + desired charge, 0, rated),
\* with no bias; load 500 W, charge 0, SOC 100 %, import 0, export 0 and
\* bias 50 W give 450 W.
C14_FullBranchTarget ==
    ( /\ pc = "sleep"
      /\ out.phase # "runtime_raised"
      /\ out.export_costs
      /\ out.alpha_ok
      /\ \/ Get(alpha_snap).soc_pct = None
         \/ Get(Get(alpha_snap).soc_pct) >= ALPHAESS_FULL_SOC_PCT_X10 )
    => LET snap == Get(alpha_snap)
           cap == Max(0, Min(ALPHAESS_AUTO_CHARGE_W, ALPHAESS_AUTO_CHARGE_MAX_W))
           low == /\ snap.soc_pct # None
                  /\ Get(snap.soc_pct) < ALPHAESS_AUTO_CHARGE_BELOW_SOC_PCT_X10
           desired == IF low THEN Max(snap.charge_w, cap) ELSE snap.charge_w
           g == ALPHAESS_GRID_FEEDBACK_GAIN_NUM
           d == ALPHAESS_GRID_FEEDBACK_GAIN_DEN
           base == (Get(snap.pload_w) + desired) * d
           f == IF snap.pgrid_w = None THEN base
                ELSE base + g * snap.grid_import_w - g * snap.grid_export_w
                     - ALPHAESS_GRID_IMPORT_BIAS_W * d
       IN  /\ out.target_w = RoundHalfEven(Max(0, Min(GOODWE_RATED_W * d, f)), d)
           /\ ( /\ snap.pload_w = Some(500)
                /\ snap.charge_w = 0
                /\ snap.soc_pct = Some(1000)
                /\ snap.pgrid_w = Some(0)
                /\ ALPHAESS_GRID_IMPORT_BIAS_W = 50 ) => out.target_w = 450

\* C14 witness: SOC 99.5 %, load 800 W, charging at 2000 W and exporting
\* 400 W: the raw target is 800 + 2000 - 400 - 50 W.
C14_FullChargingExporting ==
    /\ pc = "sleep"
    /\ out.export_costs
    /\ out.alpha_ok
    /\ Get(alpha_snap).soc_pct = Some(995)
    /\ Get(alpha_snap).charge_w = 2000
    /\ Get(alpha_snap).grid_export_w = 400
    /\ out.target_w = 2350

\* C15: for every smoothing factor in [0,1) and every percentage p in
\* 0..100, if the raw percentage equals the previous percentage p then the
\* smoothed percentage is p.
C15_SmoothingFixedPoint ==
    [][(out.phase = "smoothing" /\ out.target_pct_raw = last_limit_state[2])
          => out'.want_pct = last_limit_state[2]]_vars

\* C15 witness: a smoothing step with a factor in (0,1) that reached and
\* keeps a percentage equal to the raw one, strictly between 0 and 100.
C15_AtFixedPoint ==
    /\ out.phase = "smoothing"
    /\ cfg.smoothing[1] > 0
    /\ out.want_pct = out.target_pct_raw
    /\ last_limit_state[2] = out.target_pct_raw
    /\ out.target_pct_raw \in 1..99

\* C16: with a smoothing factor in (0,1) and the raw percentage fixed at R,
\* every tick whose previous percentage differs from R brings the smoothed
\* percentage strictly closer to R (so it never stalls away from R).
C16_ErrorStrictlyDecreases ==
    [][( /\ out.phase = "smoothing"
         /\ cfg.smoothing[1] > 0
         /\ last_limit_state[2] # out.target_pct_raw )
          => Abs(out'.want_pct - out.target_pct_raw)
                < Abs(last_limit_state[2] - out.target_pct_raw)]_vars

\* C17: a failed reconnect with k prior consecutive failures sets the delay
\* to the next permitted reconnect to min(max_backoff, min_backoff * 2^k),
\* which is never above the cap and not below the delay of the failure
\* before it; a reconnect is attempted only when the delay has elapsed; a
\* successful connect resets the failure count (and the delay after the
\* next failure is min_backoff).
C17_ReconnectBackoff ==
    [][(modbus' # modbus) =>
          LET k == modbus.reconnect_failures
              delay == modbus'.next_reconnect_ts - now
          IN  /\ modbus'.event = "reconnect_failed" =>
                    /\ modbus'.reconnect_failures = k + 1
                    /\ delay = Min(MODBUS_RECONNECT_MAX_BACKOFF_SEC,
                                   MODBUS_RECONNECT_MIN_BACKOFF_SEC * 2 ^ k) * TicksPerSec
                    /\ delay <= MODBUS_RECONNECT_MAX_BACKOFF_SEC * TicksPerSec
                    /\ k >= 1 => modbus'.backoff >= modbus.backoff
                    /\ k = 0 => delay = MODBUS_RECONNECT_MIN_BACKOFF_SEC * TicksPerSec
              /\ modbus'.event \in {"reconnect_failed", "reconnected"} =>
                    now >= modbus.next_reconnect_ts
              /\ modbus'.event = "reconnected" =>
                    /\ modbus'.client
                    /\ modbus'.reconnect_failures = 0
                    /\ modbus'.next_reconnect_ts = 0
              /\ modbus'.event \notin {"reconnect_failed", "reconnected"} =>
                    /\ modbus'.reconnect_failures = k
                    /\ modbus'.next_reconnect_ts = modbus.next_reconnect_ts]_vars

\* C17 witness: the third consecutive failed reconnect, its delay at the cap.
C17_ThirdFailureAtCap ==
    /\ modbus.event = "reconnect_failed"
    /\ modbus.reconnect_failures = 3
    /\ modbus.backoff = MODBUS_RECONNECT_MAX_BACKOFF_SEC
    /\ modbus.next_reconnect_ts = now + MODBUS_RECONNECT_MAX_BACKOFF_SEC * TicksPerSec

\* C18: when an attempt of a read or write call receives a Modbus
\* exception reply with code 1..4, the call makes no further attempt and
\* fails with that error, no reconnect is attempted, and the connection,
\* the reconnect failure count and the next permitted reconnect time are
\* unchanged.
C18_DeterministicExceptionNotRetried ==
    [][(modbus.call = "loop" /\ modbus' # modbus /\ modbus'.reply = "exception_1_4") =>
          /\ modbus'.call = "idle"
          /\ modbus'.result = "failed"
          /\ modbus'.error = "exception_1_4"
          /\ modbus'.event = "none"
          /\ modbus'.client = modbus.client
          /\ modbus'.reconnect_failures = modbus.reconnect_failures
          /\ modbus'.next_reconnect_ts = modbus.next_reconnect_ts]_vars

\* C18 witness: a write call that failed on a Modbus exception reply with
\* code 1..4.
C18_WriteFailedOnException ==
    /\ modbus.op = "write_register"
    /\ modbus.call = "idle"
    /\ modbus.reply = "exception_1_4"
    /\ modbus.result = "failed"
    /\ modbus.error = "exception_1_4"
    /\ modbus.client

\* C19: once the runtime reader has resolved to dns, mt or disabled, the
\* resolved profile never changes again, whatever the reads do, and a read
\* touches no registers but those of the resolved profile.
C19_ProfileResolvedOnce ==
    [][resolved_profile # None =>
          /\ resolved_profile' = resolved_profile
          /\ (pc = "tick" /\ pc' = "sleep") =>
                \A i \in 1..Len(out'.probed) : out'.probed[i] = Get(resolved_profile)]_vars

\* C19 witness: under profile auto the reader resolved to mt, and a later
\* read under mt failed without touching the dns registers.
C19_FailedReadAfterResolution ==
    /\ cfg.runtime_profile = "auto"
    /\ resolved_profile = Some("mt")
    /\ out.phase = "runtime_raised"
    /\ out.probed = <<"mt">>

\* C20: a battery poll that fails leaves the published snapshot, timestamp
\* included, in place and changes nothing but the last-error field; the
\* snapshot is replaced only by a successful poll, which stamps it with the
\* time of the poll and clears the error.
C20_FailedPollKeepsSnapshot ==
    [][/\ alpha_last_error' # alpha_last_error /\ alpha_last_error' =>
            UNCHANGED <<threads, proc, alpha_snap, amber_snap, cfg, now, pc, last_limit_state,
                        last_write_ts, resolved_profile, last_probe_error,
                        regs, modbus, out>>
       /\ alpha_snap' # alpha_snap =>
            /\ alpha_snap' # None
            /\ Get(alpha_snap').ts = now
            /\ ~alpha_last_error'
       /\ alpha_last_error' # alpha_last_error /\ ~alpha_last_error' =>
            alpha_snap' # None /\ Get(alpha_snap').ts = now]_vars

\* C20 witness: a poll failed after a snapshot was published earlier; the
\* older snapshot is still the published one.
C20_ErrorWithOlderSnapshot ==
    /\ alpha_last_error
    /\ alpha_snap # None
    /\ Get(alpha_snap).ts < now

\* C26: if set_limit_pct raises, the enable, percentage and tenths-mirror
\* registers all hold the values they had before the call.
C26_FailedWriteLeavesRegisters ==
    [][(out'.phase = "set_limit_pct" /\ out'.write_attempted /\ ~out'.write_ok) =>
          regs' = regs]_vars

\* C27: on every tick the smoothing starts from the percentage the previous
\* tick commanded, whether or not that tick wrote it.
C27_SmoothsFromLastCommanded ==
    [][(pc = "tick" /\ pc' = "sleep" /\ out.want_pct # -1 /\ out'.want_pct # -1) =>
          out'.want_pct = smooth(out.want_pct, out'.target_pct_raw,
                                 LIMIT_SMOOTHING_NUM, LIMIT_SMOOTHING_DEN)]_vars

\* C28: a read or write call enters its retry loop with max(1, retries)
\* attempts, every attempt uses one up, the call returns a value exactly on
\* an attempt that succeeded (and then ends), and it ends as failed, with
\* the error of its last attempt, when an attempt fails with none left or
\* meets a Modbus exception reply with code 1..4; it never goes on
\* past its last attempt.
C28_BoundedAttempts ==
    [][/\ (modbus.call = "idle" /\ modbus'.call = "loop") =>
             modbus'.left = Max(1, MODBUS_RETRIES)
       /\ (modbus.call = "loop" /\ modbus' # modbus) =>
             /\ modbus.left \in 1..Max(1, MODBUS_RETRIES)
             /\ modbus'.left < modbus.left
             /\ (modbus'.result = "ok") = (modbus'.reply = "ok")
             /\ modbus'.reply = "ok" => modbus'.call = "idle"
             /\ (modbus'.reply # "ok" /\ modbus.left = 1) =>
                   /\ modbus'.call = "idle"
                   /\ modbus'.result = "failed"
                   /\ modbus'.error = modbus'.reply
             /\ modbus'.result = "failed" => modbus'.error = modbus'.reply
             /\ modbus'.call = "loop" => (modbus'.result = "none" /\ modbus'.left >= 1)]_vars

\* C28 witness: a read that failed on its last attempt with a timeout, the
\* connection still up.
C28_ReadFailedAfterLastAttempt ==
    /\ modbus.op = "read_holding"
    /\ modbus.call = "idle"
    /\ modbus.result = "failed"
    /\ modbus.reply = "timeout"
    /\ modbus.error = "timeout"
    /\ modbus.client

\* C29: every failed attempt other than a Modbus exception reply with code
\* 1..4 leads to a reconnect attempt whenever reconnect is enabled and the
\* backoff gate is open.
C29_EveryOtherFailureReconnects ==
    [][(/\ modbus.call = "loop"
        /\ modbus' # modbus
        /\ modbus'.reply \notin {"ok", "exception_1_4"}
        /\ MODBUS_RECONNECT_ON_ERROR
        /\ now >= modbus.next_reconnect_ts) =>
          modbus'.event \in {"reconnected", "reconnect_failed"}]_vars

\* C30: under profile auto the first read while unresolved probes dns, and
\* mt only if dns failed; it resolves to the first that answered, and to
\* disabled, with the last probe error remembered, if both failed.  A read
\* under a pinned profile touches the registers of no other profile.
C30_ProbeOrder ==
    [][(pc = "tick" /\ pc' = "sleep") =>
          LET probed == out'.probed
          IN  /\ (cfg.runtime_profile = "auto" /\ resolved_profile = None) =>
                    /\ probed \in {<<"dns">>, <<"dns", "mt">>}
                    /\ resolved_profile' # None
                    /\ (probed = <<"dns">>) = (resolved_profile' = Some("dns"))
                    /\ probed = <<"dns", "mt">> =>
                          /\ resolved_profile' \in {Some("mt"), Some("off")}
                          /\ last_probe_error' # None
                    /\ resolved_profile' = Some("off") => last_probe_error' = Some("mt")
              /\ cfg.runtime_profile \in PinnedProfiles =>
                    /\ \A i \in 1..Len(probed) : probed[i] = cfg.runtime_profile
                    /\ resolved_profile' = Some(cfg.runtime_profile)
                    /\ last_probe_error' = None]_vars

\* C30 witness: under profile auto both probes failed on the first read and
\* the reader is disabled, the error of the mt probe remembered.
C30_BothProbesFailed ==
    /\ cfg.runtime_profile = "auto"
    /\ out.probed = <<"dns", "mt">>
    /\ resolved_profile = Some("off")
    /\ last_probe_error = Some("mt")

\* C21: every battery snapshot that is published or held by the loop is
\* fully built (normalised signs, battery state, import and export as
\* AlphaEssSnapshot gives them for its raw readings) and no step changes
\* it; each poller's published snapshot changes only in the body of its
\* _set_snapshot, under its lock, to the snapshot the poller built.
C21_NoPartialSnapshot ==
    [][LET seen(th) == {th.alpha_last_snapshot, th.main.alpha_snap} \ {0}
           built(o) == o = AlphaEssSnapshot(o.ts, [pload |-> o.pload_w,
                                                  pbat |-> o.pbat_w_raw,
                                                  pgrid |-> o.pgrid_w_raw,
                                                  soc |-> o.soc_pct])
       IN  /\ \A r \in seen(threads') : built(threads'.heap[r])
           /\ \A r \in seen(threads) : threads'.heap[r] = threads.heap[r]
           /\ threads'.alpha_last_snapshot # threads.alpha_last_snapshot =>
                 /\ threads.alpha_lock = "alpha"
                 /\ threads'.alpha_last_snapshot = threads.alpha.snap
           /\ threads'.amber_snapshot # threads.amber_snapshot =>
                 /\ threads.amber_lock = "amber"
                 /\ threads'.amber_snapshot = threads.amber.snap
           /\ threads'.main.alpha_snap # threads.main.alpha_snap =>
                 /\ threads.alpha_lock = "main"
                 /\ threads'.main.alpha_snap = threads.alpha_last_snapshot]_vars

\* C21 witness: the loop holds the first snapshot while the poller has a
\* second one constructed and not yet normalised.
C21_HeldWhileNextIsBuilt ==
    /\ threads.main.alpha_snap = 1
    /\ threads.alpha.snap = 2
    /\ threads.alpha.at = "normalise_pgrid"
    /\ threads.heap[2].pgrid_w_raw # None
    /\ threads.heap[2].pgrid_w = None

\* C22: a lock is held only inside the body of get_snapshot, _set_snapshot
\* or _set_error, so the loop holds none while it is in a bus call (or
\* asleep) and a poller holds none while it fetches; a poller ready to
\* publish while the loop is in a bus call finds its lock free.
C22_BusCallHoldsNoLock ==
    /\ threads.amber_lock \in {"free", "main", "amber"}
    /\ threads.alpha_lock \in {"free", "main", "alpha"}
    /\ threads.amber_lock = "main" => threads.main.at = "get_amber_locked"
    /\ threads.alpha_lock = "main" => threads.main.at = "get_alpha_locked"
    /\ threads.amber_lock = "amber" => threads.amber.at = "set_snapshot_locked"
    /\ threads.alpha_lock = "alpha" =>
          threads.alpha.at \in {"set_snapshot_locked", "set_error_locked"}
    /\ threads.main.at \in BusCalls =>
          /\ threads.amber.at = "set_snapshot" => threads.amber_lock = "free"
          /\ threads.alpha.at \in {"set_snapshot", "set_error"} =>
                threads.alpha_lock = "free"

\* C22 witness: the loop is still in the bus call it was in when the
\* battery poller published its second snapshot.
C22_PublishedDuringBusCall ==
    /\ threads.main.at = "read_current"
    /\ threads.main.published_in_bus_call
    /\ threads.alpha_last_snapshot = 2
    /\ threads.main.alpha_snap = 1

\* C23: whenever main() has left, by return or by an exception, after a
\* poller was started, the stop flag of every started poller is set, its
\* thread was joined (the join returned, within its timeout) and the bus
\* connection is closed.
C23_EveryExitCleansUp ==
    (proc.at = "exited" /\ proc.status # "killed_SIGTERM"
        /\ proc.amber.thread # "none") =>
       /\ \A who \in {"amber", "alpha"} :
             proc[who].thread # "none" =>
                proc[who].stop /\ proc[who].join = "returned"
       /\ proc.bus = "closed"

\* C23 on the exits it names: after a connect that returned failure, a
\* battery client that could not be constructed and an interrupt inside the
\* loop, once the close calls were all made, every started poller is
\* stopped and joined and the bus connection is closed.
C23_NamedExitsCleanUp ==
    (proc.at = "exited"
        /\ proc.cause \in {"connect_failed", "alpha_init", "interrupt_in_loop"}) =>
       /\ \A who \in {"amber", "alpha"} :
             proc[who].thread # "none" =>
                proc[who].stop /\ proc[who].join = "returned"
       /\ proc.bus = "closed"

\* C24: a poller thread that was sleeping between polls when close() set
\* its stop flag starts no fetch afterwards and has returned from _run
\* before more than one second has passed.
C24_StopSeenWithinASecond ==
    \A who \in {"amber", "alpha"} :
       (proc[who].stop /\ proc[who].at_stop = "sleeping") =>
          /\ ~proc[who].fetched_after_stop
          /\ proc[who].thread \in {"sleeping", "check", "chunk", "done"}
          /\ proc[who].thread # "done" => proc[who].since_stop <= TicksPerSec

\* C24 witness: the price poller had a full second of sleep ahead when the
\* stop flag was set, and returned when that second had passed.
C24_StoppedAfterFullSecond ==
    /\ proc.amber.stop
    /\ proc.amber.at_stop = "sleeping"
    /\ proc.amber.thread = "done"
    /\ proc.amber.since_stop = TicksPerSec
    /\ proc.amber.join = "returned"

\* C25: the process ends with exit code 0 when it is interrupted during
\* the control loop, and with a non-zero code when the price credentials
\* are missing, when the initial bus connect fails and when the battery
\* client cannot be constructed.
C25_ExitCodes ==
    proc.at = "exited" =>
       /\ proc.cause = "interrupt_in_loop" => proc.status = "return_0"
       /\ proc.cause \in {"credentials", "connect_failed", "connect_raised",
                          "alpha_init"} => proc.status # "return_0"

\* C34: in the tenths-mirror scheme a call of set_limit_pct issues its
\* register writes in the order enable switch, percentage, tenths mirror;
\* a write that fails is the last one issued, the registers written before
\* it keep their new values and the others keep their old ones; after a
\* call whose writes all succeeded the mirror register holds ten times the
\* percentage register.
C34_OrderedWritesNoRollback ==
    [][(out'.phase = "set_limit_pct" /\ cfg.mode = "pct") =>
          LET ws == out'.writes
              order == <<GOODWE_EXPORT_SWITCH_REG, GOODWE_EXPORT_PCT_REG,
                         GOODWE_EXPORT_PCT10_REG>>
              done == IF out'.write_ok THEN Len(ws) ELSE Len(ws) - 1
          IN  /\ Len(ws) \in 1..3
              /\ \A i \in 1..Len(ws) : ws[i][1] = order[i]
              /\ out'.write_ok => Len(ws) = 3
              /\ \A i \in 1..3 :
                    regs'[order[i]] = IF i <= done THEN ws[i][2] ELSE regs[order[i]]
              /\ regs'[GOODWE_ACTIVE_PCT_REG] = regs[GOODWE_ACTIVE_PCT_REG]
              /\ out'.write_ok =>
                    regs'[GOODWE_EXPORT_PCT10_REG] = 10 * regs'[GOODWE_EXPORT_PCT_REG]]_vars

\* C34 witness: the write of the mirror failed after the percentage was
\* written, and the two registers now disagree.
C34_MirrorWriteFailed ==
    /\ out.phase = "set_limit_pct"
    /\ cfg.mode = "pct"
    /\ ~out.write_ok
    /\ Len(out.writes) = 3
    /\ regs[GOODWE_EXPORT_PCT_REG] = out.writes[2][2]
    /\ regs[GOODWE_EXPORT_PCT10_REG] # 10 * regs[GOODWE_EXPORT_PCT_REG]

\* C38: on every tick that reaches the write gating, whichever branch of
\* the policy fired, the raw target watts are within 0 .. rated and the raw
\* and the smoothed percentage within 0 .. 100; the percentage of a write
\* that is issued is the smoothed one, unchanged by the limiter's clamp.
C38_TargetsInRange ==
    out.phase = "done" =>
        /\ out.target_w \in 0..GOODWE_RATED_W
        /\ out.target_pct_raw \in 0..100
        /\ out.want_pct \in 0..100
        /\ Len(out.writes) >= 2 => out.writes[2][2] = out.want_pct

\* C38 witness: a full battery and a load above the rated power: the upper
\* clamp gave the rated watts and 100 %.
C38_ClampedAtRated ==
    /\ out.phase = "done"
    /\ out.reason = "pload_charge"
    /\ Get(alpha_snap).pload_w = Some(6000)
    /\ out.target_w = GOODWE_RATED_W
    /\ out.target_pct_raw = 100

\* C40: when export costs money and the battery snapshot is ok but carries
\* no SOC, the tick takes the battery-full branch: the raw target is the
\* clamped house load plus measured charge, with the grid feedback and the
\* import bias of that branch when the snapshot carries a grid reading, no
\* auto-charge allowance is added, and the export-allowance branch for a
\* battery below full is not taken.
C40_UnknownSocTakesFullBranch ==
    ( /\ out.phase = "done"
      /\ out.export_costs
      /\ out.alpha_ok
      /\ Get(alpha_snap).soc_pct = None )
    => LET snap == Get(alpha_snap)
           g == ALPHAESS_GRID_FEEDBACK_GAIN_NUM
           d == ALPHAESS_GRID_FEEDBACK_GAIN_DEN
           base == (Get(snap.pload_w) + snap.charge_w) * d
           f == IF snap.pgrid_w = None THEN base
                ELSE base + g * snap.grid_import_w - g * snap.grid_export_w
                     - ALPHAESS_GRID_IMPORT_BIAS_W * d
       IN  /\ out.reason = "pload_charge"
           /\ out.auto_add_w = 0
           /\ out.target_w = RoundHalfEven(Max(0, Min(GOODWE_RATED_W * d, f)), d)

\* C40 witness: no SOC, load 700 W, charging at 400 W, exporting 100 W
\* (within the allowance of the other branch): the target is
\* 700 + 400 - 100 - 50 W, not the rated power.
C40_UnknownSocExportWithinAllow ==
    /\ out.phase = "done"
    /\ out.export_costs
    /\ out.alpha_ok
    /\ Get(alpha_snap).soc_pct = None
    /\ Get(alpha_snap).grid_export_w = 100
    /\ out.target_w = 950

\* C37: a tick attempts no limiter write when the state last successfully
\* applied to the device, with the enable flag forced on under
\* always_enabled, matches the newly computed state within the minimum
\* step; so under always_enabled a change of the export-costs flag with an
\* unchanged percentage causes no write.
C37_NoWriteWhenAppliedStateMatches ==
    [][( /\ pc = "tick"
         /\ out'.phase = "done"
         /\ last_limit_state # None
         /\ (IF cfg.always_enabled THEN 1 ELSE last_limit_state[1])
               = (IF cfg.always_enabled THEN 1 ELSE out'.want_enabled)
         /\ Abs(last_limit_state[2] - out'.want_pct) < MIN_PCT_STEP )
       => ~out'.write_attempted]_vars

C36_ErrorCodeIsFailedPoll ==
    [][( /\ pc = "poll"
         /\ out'.phase = "battery_poll"
         /\ out'.reply.http_ok
         /\ ~IsNone(out'.reply.code)
         /\ Get(out'.reply.code) \notin OkCodes )
       => (alpha_last_error' /\ alpha_snap' = alpha_snap)]_vars

\* C36 for the envelopes that carry a data key: an error code makes the
\* poll fail, the error is recorded and the snapshot kept.
C36_ErrorCodeWithDataIsFailedPoll ==
    [][( /\ pc = "poll"
         /\ out'.phase = "battery_poll"
         /\ out'.reply.http_ok
         /\ out'.reply.has_data
         /\ ~IsNone(out'.reply.code)
         /\ Get(out'.reply.code) \notin OkCodes )
       => (alpha_last_error' /\ alpha_snap' = alpha_snap)]_vars

\* C31: after a failed price poll the published snapshot is one with null
\* prices and the error, whatever was published before; from then until
\* the next poll the loop's gate on it gives a price state that is not ok
\* and export_costs true, also while the snapshot published before would
\* still have been within the maximum age.
C31_FailedPollPublishesError ==
    ( /\ out.phase = "price_poll"
      /\ \/ out.reply.prices = "raise"
         \/ cfg.fetch_usage /\ out.reply.usage = "failed" )
    => /\ amber_snap # None
       /\ Get(amber_snap).feedin_c = None
       /\ Get(amber_snap).last_error
       /\ Get(amber_snap).ts >= out.fetch_ts
       /\ ~amber_gate(amber_snap, now).amber_ok
       /\ amber_gate(amber_snap, now).export_costs
       /\ amber_gate(amber_snap, now).amber_state # "ok"
       /\ ~is_ok(amber_snap, now)

\* C31 witness: the price fetch raised while the snapshot published before
\* carried a feed-in price at or above the threshold and is still within
\* the maximum age.
C31_FailedWhilePreviousFresh ==
    /\ out.phase = "price_poll"
    /\ out.reply.prices = "raise"
    /\ amber_gate(out.prev, now).amber_ok
    /\ ~amber_gate(out.prev, now).export_costs
    /\ Get(amber_snap).last_error

\* C32: the price poller fetches at startup without waiting; after a
\* successful poll it issues no fetch before the interval end of the reply
\* plus the slack, or before the time of the poll plus one resolution
\* period when the reply carried no interval end; after a failed poll it
\* issues no fetch before the time of the poll plus the retry backoff.
C32_NoFetchBeforeDue ==
    [][out' # out =>
          IF out.phase = "none"
          THEN out'.fetch_ts = StartTime
          ELSE LET s == Get(amber_snap)
                   failed == \/ out.reply.prices = "raise"
                             \/ cfg.fetch_usage /\ out.reply.usage = "failed"
               IN  IF failed
                   THEN out'.fetch_ts >= s.ts + AMBER_RETRY_BACKOFF_SEC * TicksPerSec
                   ELSE IF ~IsNone(out.reply.end)
                   THEN out'.fetch_ts
                           >= Get(out.reply.end) + AMBER_POLL_SLACK_SEC * TicksPerSec
                   ELSE out'.fetch_ts
                           >= s.ts + AMBER_RESOLUTION_MIN * 60 * TicksPerSec]_vars

\* C32 witness: a fetch issued exactly one retry backoff after a failed
\* poll.
C32_FetchAfterBackoff ==
    /\ out.phase = "price_poll"
    /\ out.prev # None
    /\ Get(out.prev).last_error
    /\ out.fetch_ts = Get(out.prev).ts + AMBER_RETRY_BACKOFF_SEC * TicksPerSec

\* C33: whenever the price fetch of a poll succeeded, the published
\* snapshot carries the fetched feed-in price and no error, whatever
\* became of the usage fetch and of its fallback to the coarser resolution.
C33_UsageFailureKeepsPrices ==
    (out.phase = "price_poll" /\ out.reply.prices = "ok")
    => /\ Get(amber_snap).feedin_c = out.reply.feed_c
       /\ ~Get(amber_snap).last_error

\* C33 for the polls whose usage fetch, or at least its fallback,
\* returned: the published snapshot carries the fetched price.
C33_FallbackKeepsPrices ==
    (out.phase = "price_poll" /\ out.reply.prices = "ok" /\ out.reply.usage # "failed")
    => /\ Get(amber_snap).feedin_c = out.reply.feed_c
       /\ ~Get(amber_snap).last_error

====
